---- MODULE Spec2Model ----
(***************************************************************************)
(* Terrain navigation-display rasterizer (MapHandler): the per-side        *)
(* rendering scheduler, the sweep transition, the PNG hand-over to the     *)
(* simulator connection and the screen-frame compositor.                   *)
(***************************************************************************)
EXTENDS Integers, Sequences, FiniteSets, TLC

VARIABLES
    initialized,                  \* MapHandler.initialized
    connected,                    \* the SimConnect connection delivers callbacks (until terminate())
    aircraftStatus,               \* MapHandler.aircraftStatus: <<>> (null) or <<status>>
    currentGroundTruthPosition,   \* NullPosition or a position
    cachedElevationData,          \* [gpuData, cpuData, cachedTiles]
    worldMapMetadata,             \* [southwest, northeast, currentGridPosition, minWidthPerTile, ...]
    loadedTiles,                  \* cells of the tile lattice whose elevation map the tile store holds
    navigationDisplayRendering,   \* side -> [config, timeout, durationInterval, ...]
    timeouts,                     \* side -> the runtime still holds an armed setTimeout
    intervals,                    \* side -> ids of the setInterval tickers the runtime still runs
    closures,                     \* side -> ticker id -> variables captured by that arcModeTransition call
    encoding,                     \* side -> PNG encodings (sharp promises) not yet resolved
    sent,                         \* messages handed to SimConnect by the last handler, in order
    renderStarted,                \* sides for which the last handler called renderNavigationDisplay
    lastEvent,                    \* the handler that ran last
    px,                           \* frame compositor: one pixel of the frames of a sweep, its inputs and its values
    calc                          \* render pipeline: the inputs and the results of one stage

vars == <<initialized, connected, aircraftStatus, currentGroundTruthPosition,
          cachedElevationData, worldMapMetadata, loadedTiles, navigationDisplayRendering, timeouts,
          intervals, closures, encoding, sent, renderStarted, lastEvent, px, calc>>

schedVars == <<initialized, connected, aircraftStatus, currentGroundTruthPosition,
               cachedElevationData, worldMapMetadata, loadedTiles, navigationDisplayRendering, timeouts,
               intervals, closures, encoding, sent, renderStarted, lastEvent>>

Sides == {"L", "R"}

Null == <<>>

Some(v) == <<v>>

\* ---------------------------------------------------------------- bounds
\* other handlers that may run while a PNG encoding is unresolved
MaxEncodeAge == 1

\* ticks a ticker may run past the end of its sweep before the model stops following it
MaxOvershootTicks == 2

\* calls of updateTileData in a row
MaxTileUpdates == 3

\* ---------------------------------------------------------------- program constants
RenderingMaxPixelWidth == 768

RenderingScreenPixelHeight == 768

RenderingMapStartOffsetY == 128

RenderingArcModePixelWidth == 756

RenderingArcModePixelHeight == 492

RenderingRoseModePixelWidth == 678

RenderingRoseModePixelHeight == 250

RenderingMapTransitionDeltaTime == 40

RenderingMapTransitionDuration == 1000

RenderingMapUpdateTimeout == 1500

RenderingColorChannelCount == 4

HistogramMinimumElevation == -500

\* Math.round(x / y) for non-negative x and positive y
RoundDiv(x, y) == (2 * x + y) \div (2 * y)

RenderingMapFrameValidityTime == RenderingMapTransitionDuration + RenderingMapUpdateTimeout

\* variant: the quotient is truncated instead of rounded
RenderingMapTransitionAngularStep_Truncated ==
    (90 * RenderingMapTransitionDeltaTime) \div RenderingMapTransitionDuration

RenderingMapTransitionAngularStep ==
    RoundDiv(90 * RenderingMapTransitionDeltaTime, RenderingMapTransitionDuration)

\* TerrainRenderingMode: the only mode the handler knows, and any other value
ArcMode == "ArcMode"

RenderingModes == {ArcMode, "Other"}

\* TerrainLevelMode
PeaksMode == "PeaksMode"

Warning == "Warning"

Caution == "Caution"

\* ---------------------------------------------------------------- inputs
\* NavigationDisplay configurations the simulator sends (active, range, arcMode, efisMode):
\* the captain's display is switched on and off, changes its range while switched off,
\* its range and arc mode while switched on, and its efisMode; the first officer's
\* display stays switched off
Config(active, range, arcMode, efisMode) ==
    [active |-> active, range |-> range, arcMode |-> arcMode, efisMode |-> efisMode]

Configs ==
    {Config(TRUE, 10, TRUE, 0), Config(FALSE, 10, TRUE, 0), Config(FALSE, 20, TRUE, 0),
     Config(TRUE, 20, FALSE, 0), Config(TRUE, 10, TRUE, 1)}

OffConfig == Config(FALSE, 10, TRUE, 0)

ConfigsOf(side) == IF side = "L" THEN Configs ELSE {OffConfig}

\* ground-truth positions, in position units (a quarter of the DEM's angular step)
Position(latitude, longitude) ==
    [kind |-> "position", latitude |-> latitude, longitude |-> longitude]

\* currentGroundTruthPosition before the first position update
NullPosition == [kind |-> "null", latitude |-> 0, longitude |-> 0]

\* the position the simulator reports while the display scheduler is followed
Positions == {Position(4, 4)}

\* the positions the simulator reports while the world-map cache is followed: over land
\* (the two western tile columns), along the coast and over the open sea
WorldPositions == {Position(lat, lon) : lat \in {4, 6, 11}, lon \in {4, 9, 12, 14}}

\* new Date().getTime() - startupTimestamp of side L, modulo the frame validity time, in ms
TimePhases == {0, 1000}

\* the startup configuration and status of the constructor's warm-up
startupConfig == [range |-> 10, arcMode |-> TRUE, active |-> TRUE, efisMode |-> 0]

\* ---------------------------------------------------------------- frames
\* image rendered by the pipeline for a configuration, embedded in the screen canvas
ScreenFrame(config) ==
    [kind |-> "full", range |-> config.range, arcMode |-> config.arcMode,
     old |-> Null, start |-> 0, end |-> 90]

\* image composed by arcModeTransitionFrame out of oldFrame and newFrame
TransitionFrame(oldFrame, newFrame, startAngle, endAngle) ==
    [kind |-> "transition", range |-> newFrame.range, arcMode |-> newFrame.arcMode,
     old |-> oldFrame, start |-> startAngle, end |-> endAngle]

\* sharp(frame).png().toBuffer(): the encoded buffer and its byte length
PngByteLength(frame) == IF frame.kind = "full" THEN 2000 ELSE 1000 + frame.end

PngEncode(frame) == [png |-> frame, byteLength |-> PngByteLength(frame)]

\* ---------------------------------------------------------------- metadata
\* metadata rows the colorizer returns: pixel 0 and pixel 1 of the last row
MetadataRows ==
    { <<0, 100, 1500, 3904, 2904, 1654, 904, 300>> }

analyzeMetadata(metadata, cutOffAltitude) ==
    IF metadata[1] = 0
    THEN LET maxElevation == metadata[3]
             highDensityRed == metadata[4]
             lowDensityYellow == metadata[6]
             highDensityGreen == metadata[7]
             lowDensityGreen == metadata[8]
         IN  [MinimumElevation |-> IF cutOffAltitude > lowDensityGreen THEN cutOffAltitude ELSE lowDensityGreen,
              MinimumElevationMode |-> IF lowDensityYellow <= highDensityGreen THEN Warning ELSE PeaksMode,
              MaximumElevation |-> maxElevation,
              MaximumElevationMode |-> IF maxElevation >= highDensityRed THEN Caution ELSE Warning,
              FirstFrame |-> FALSE, DisplayRange |-> 0, DisplayMode |-> 0, FrameByteCount |-> 0]
    ELSE LET minElevation == metadata[2]
             maxElevation == metadata[3]
             lowDensityGreen == metadata[6]
         IN  [MinimumElevation |-> IF maxElevation < 0 THEN -1
                                    ELSE IF lowDensityGreen > minElevation THEN lowDensityGreen ELSE minElevation,
              MinimumElevationMode |-> PeaksMode,
              MaximumElevation |-> IF maxElevation < 0 THEN 0 ELSE maxElevation,
              MaximumElevationMode |-> PeaksMode,
              FirstFrame |-> FALSE, DisplayRange |-> 0, DisplayMode |-> 0, FrameByteCount |-> 0]

\* the reset message of configureNavigationDisplay
ResetMetadata ==
    [MinimumElevation |-> -1, MinimumElevationMode |-> PeaksMode,
     MaximumElevation |-> -1, MaximumElevationMode |-> PeaksMode,
     FirstFrame |-> TRUE, DisplayRange |-> 0, DisplayMode |-> 0, FrameByteCount |-> 0]

\* SimConnect.sendNavigationDisplayTerrainMapMetadata / ...Frame; stale marks a message
\* whose render was made under a configuration that has been replaced since
MetadataMessage(side, data, stale) ==
    [type |-> "metadata", side |-> side, data |-> data, stale |-> stale]

FrameMessage(side, buffer, stale) ==
    [type |-> "frame", side |-> side, buffer |-> buffer, stale |-> stale]

\* ---------------------------------------------------------------- per-side state
\* ids of the tickers (and of the variables their callbacks capture) of one side
ClosureIds == 1..(MaxEncodeAge + 5)

EmptyTransitionData == [timestamp |-> 0, thresholds |-> Null, frames |-> 0]

\* a closure slot that no ticker, encoding or snapshot refers to
NoClosure ==
    [angle |-> 0, startAngle |-> 0, firstFrame |-> FALSE, lastFrame |-> Null,
     config |-> Null, frameData |-> Null, thresholdData |-> Null, transitionFrames |-> 0]

\* the state of one side handed through the handlers:
\*   nd         navigationDisplayRendering[side]
\*   timeout    the runtime holds the side's armed setTimeout
\*   intervals  the tickers of the side the runtime runs
\*   closures, encoding, sent, started   as the variables of the same names
\*   held       the ticker ids in use when the handler began (the runtime gives a new
\*              ticker an id that no earlier ticker of this handler run had)
\* (age counts the handlers that ran since an encoding began)
SideAfter(side, handlers) ==
    [nd |-> navigationDisplayRendering[side], timeout |-> timeouts[side],
     intervals |-> intervals[side], closures |-> closures[side],
     encoding |-> {[e EXCEPT !.age = @ + handlers] : e \in encoding[side]},
     sent |-> <<>>, started |-> FALSE,
     held |-> intervals[side] \cup ({navigationDisplayRendering[side].durationInterval} \ {0})]

SideState(side) == SideAfter(side, 1)

\* every unresolved encoding can still wait for one more handler
EncodingsCanWait == \A side \in Sides : \A e \in encoding[side] : e.age < MaxEncodeAge

resetFrameData(w) ==
    [w EXCEPT !.nd.lastTransitionData = EmptyTransitionData, !.nd.lastFrame = Null]

\* variant: the handle is reset but the runtime's ticker is left running
clearDurationInterval_HandleOnly(w) ==
    [w EXCEPT !.nd.durationInterval = 0]

\* if (durationInterval !== null) { clearInterval(durationInterval); durationInterval = null; }
clearDurationInterval(w) ==
    [w EXCEPT !.intervals = @ \ {w.nd.durationInterval}, !.nd.durationInterval = 0]

\* variant: a pending timeout is left armed
clearRenderTimeout_LeavesArmed(w) == w

\* if (timeout !== null) { clearTimeout(timeout); timeout = null; }
clearRenderTimeout(w) ==
    IF w.nd.timeout THEN [w EXCEPT !.timeout = FALSE, !.nd.timeout = FALSE] ELSE w

\* closure slots something still refers to
UsedClosures(w) ==
    (w.intervals \cup {w.nd.durationInterval} \cup {e.closure : e \in w.encoding}
        \cup {w.nd.lastTransitionData.frames}) \ {0}

FreeClosure(w) ==
    LET free == ClosureIds \ (UsedClosures(w) \cup w.held)
    IN  CHOOSE id \in free : \A other \in free : id <= other

\* forget the captured variables nothing refers to any more: a closure whose ticker is
\* gone is only read by its unresolved encodings (thresholdData, firstFrame,
\* transitionFrames) and through lastTransitionData.frames (transitionFrames)
Collect(w) ==
    LET encoded == {e.closure : e \in w.encoding}
        trim(id) ==
            IF id \in w.intervals THEN w.closures[id]
            ELSE IF id \in encoded
            THEN [NoClosure EXCEPT !.thresholdData = w.closures[id].thresholdData,
                                   !.firstFrame = w.closures[id].firstFrame,
                                   !.transitionFrames = w.closures[id].transitionFrames]
            ELSE IF id = w.nd.lastTransitionData.frames
            THEN [NoClosure EXCEPT !.transitionFrames = w.closures[id].transitionFrames]
            ELSE NoClosure
    IN  [w EXCEPT !.closures = [id \in UsedClosures(w) |-> trim(id)]]

\* startupTimestamp of side R is 1500 ms earlier than that of side L
StartupOffset(side) == IF side = "R" THEN 1500 ELSE 0

\* Math.floor(90 * ratioSinceLastFrame) at wall-clock phase now
TimeAngle(side, now) ==
    (90 * ((now + StartupOffset(side)) % RenderingMapFrameValidityTime)) \div RenderingMapFrameValidityTime

\* variant: resetRenderingData is not consumed
arcModeTransition_KeepsResetFlag(w, side, config, frameData, thresholdData, now) ==
    LET w2 == IF w.nd.durationInterval # 0 THEN clearDurationInterval(w) ELSE w
        startAngle == IF w2.nd.lastFrame = Null THEN TimeAngle(side, now) ELSE 0
        id == FreeClosure(w2)
        closure == [angle |-> 0, startAngle |-> startAngle, firstFrame |-> TRUE, lastFrame |-> Null,
                    config |-> Some(config), frameData |-> Some(frameData),
                    thresholdData |-> Some([thresholdData EXCEPT !.DisplayRange = config.range,
                                                                !.DisplayMode = config.efisMode]),
                    transitionFrames |-> 0]
    IN  [w2 EXCEPT !.nd.durationInterval = id,
                   !.intervals = @ \cup {id},
                   !.closures = (id :> closure) @@ @]

arcModeTransition(w, side, config, frameData, thresholdData, now) ==
    LET w1 == IF w.nd.resetRenderingData
              THEN resetFrameData([w EXCEPT !.nd.resetRenderingData = FALSE])
              ELSE w
        w2 == IF w1.nd.durationInterval # 0 THEN clearDurationInterval(w1) ELSE w1
        startAngle == IF w2.nd.lastFrame = Null THEN TimeAngle(side, now) ELSE 0
        id == FreeClosure(w2)
        closure == [angle |-> 0, startAngle |-> startAngle, firstFrame |-> TRUE, lastFrame |-> Null,
                    config |-> Some(config), frameData |-> Some(frameData),
                    thresholdData |-> Some([thresholdData EXCEPT !.DisplayRange = config.range,
                                                                !.DisplayMode = config.efisMode]),
                    transitionFrames |-> 0]
    IN  [w2 EXCEPT !.nd.durationInterval = id,
                   !.intervals = @ \cup {id},
                   !.closures = (id :> closure) @@ @]

\* env: what the handler reads of the rest of MapHandler
\*   position, gpuData, mode (aircraftStatus.navigationDisplayRenderingMode), kernels (not destroyed)
renderNavigationDisplay(w, side, startup, env, metadata, now) ==
    LET w1 == clearRenderTimeout(w)
        w2 == [(IF w1.nd.durationInterval # 0 THEN clearDurationInterval(w1) ELSE w1) EXCEPT !.started = TRUE]
        config == w2.nd.config[1]
    IN  IF env.position.kind = "undefined" \/ w2.nd.config = Null THEN w2
        ELSE IF env.gpuData = Null \/ ~env.kernels THEN w2
        ELSE IF startup \/ env.mode # ArcMode THEN w2
        ELSE arcModeTransition(w2, side, config, ScreenFrame(config),
                               analyzeMetadata(metadata, env.cutOffAltitude), now)

startNavigationDisplayRenderingCycle(w, side, env, metadata, now) ==
    renderNavigationDisplay(clearRenderTimeout(w), side, FALSE, env, metadata, now)

\* the two flags configureNavigationDisplay derives from the stored and the new configuration
\* variant: every inactive configuration stops the rendering
stopRenderingFlag_WheneverInactive(lastConfig, config) == ~config.active

stopRenderingFlag(lastConfig, config) ==
    ~config.active /\ lastConfig # Null /\ lastConfig[1].active

\* variant: a change of efisMode alone is not noticed
startRenderingFlag_IgnoresEfisMode(lastConfig, config) ==
    \/ config.active /\ (lastConfig = Null \/ ~lastConfig[1].active)
    \/ lastConfig # Null /\ (lastConfig[1].range # config.range \/ lastConfig[1].arcMode # config.arcMode)

startRenderingFlag(lastConfig, config) ==
    \/ config.active /\ (lastConfig = Null \/ ~lastConfig[1].active)
    \/ lastConfig # Null /\ (lastConfig[1].range # config.range \/ lastConfig[1].arcMode # config.arcMode)
    \/ lastConfig # Null /\ lastConfig[1].efisMode # config.efisMode

configureNavigationDisplay(w, display, config, startup, env, metadata, now) ==
    LET lastConfig == w.nd.config
        stopRendering == stopRenderingFlag(lastConfig, config)
        startRendering == startRenderingFlag(lastConfig, config)
        w1 == [w EXCEPT !.nd.config = Some(config)]
        w2 == IF w1.nd.durationInterval # 0 THEN clearDurationInterval(w1) ELSE w1
        w3 == resetFrameData([clearRenderTimeout(w2) EXCEPT !.nd.resetRenderingData = TRUE])
        w4 == [w3 EXCEPT !.sent = Append(@, MetadataMessage(display, ResetMetadata, FALSE)),
                         !.encoding = {[e EXCEPT !.stale = TRUE] : e \in @}]
        w5 == IF stopRendering \/ startRendering THEN w4 ELSE w1
    IN  IF startup THEN w1
        ELSE IF startRendering THEN startNavigationDisplayRenderingCycle(w5, display, env, metadata, now)
        ELSE w5

\* what a render reads of the rest of MapHandler; a kernel that shutdown() destroyed
\* either still answers or throws
Env(mode, kernels) ==
    [position |-> currentGroundTruthPosition, gpuData |-> cachedElevationData.gpuData,
     mode |-> mode, kernels |-> kernels, cutOffAltitude |-> HistogramMinimumElevation]

KernelOutcomes == IF initialized THEN {TRUE} ELSE BOOLEAN

\* the wall-clock phases a handler can observe: arcModeTransition reads the clock only
\* while the side has no lastFrame, so a handler that leaves every lastFrame in place
\* sees one phase
FirstPhase == CHOOSE now \in TimePhases : \A other \in TimePhases : now <= other

ComparedFields(config) == <<config.active, config.range, config.arcMode, config.efisMode>>

ClockReads(w, config) ==
    IF w.nd.lastFrame = Null \/ w.nd.resetRenderingData
          \/ w.nd.config = Null \/ ComparedFields(w.nd.config[1]) # ComparedFields(config)
    THEN TimePhases
    ELSE {FirstPhase}

\* the callback of setInterval in arcModeTransition, for ticker id of a side
sweepTick(w, side, id) ==
    LET c == w.closures[id]
        frameData == c.frameData[1]
        angle == c.angle + RenderingMapTransitionAngularStep
        stopInterval == angle >= 90
        final == IF angle - RenderingMapTransitionAngularStep < 90
                 THEN Some(TransitionFrame(w.nd.lastFrame, frameData, c.startAngle, 90))
                 ELSE Null
        frame == IF angle < 90
                 THEN Some(TransitionFrame(w.nd.lastFrame, frameData, c.startAngle, angle))
                 ELSE IF c.startAngle = 0 THEN Some(frameData) ELSE final
        localLastFrame == IF stopInterval /\ final # Null THEN final ELSE c.lastFrame
        w1 == IF ~stopInterval THEN w
              ELSE IF c.startAngle = 0 THEN [w EXCEPT !.nd.lastFrame = Some(frameData)]
              ELSE [w EXCEPT !.nd.lastFrame = localLastFrame]
        w2 == IF frame # Null
              THEN [w1 EXCEPT !.encoding = @ \cup {[closure |-> id, frame |-> frame[1], stale |-> FALSE, age |-> 0]}]
              ELSE w1
        td == c.thresholdData[1]
        w3 == clearDurationInterval(w2)
        w4 == [w3 EXCEPT !.nd.lastTransitionData =
                   [timestamp |-> 1,
                    frames |-> id,
                    thresholds |-> Some([minElevation |-> td.MinimumElevation,
                                         minElevationIsWarning |-> td.MinimumElevationMode = Warning,
                                         minElevationIsCaution |-> td.MinimumElevationMode = Caution,
                                         maxElevation |-> td.MaximumElevation,
                                         maxElevationIsWarning |-> td.MaximumElevationMode = Warning,
                                         maxElevationIsCaution |-> td.MaximumElevationMode = Warning])]]
        w5 == clearRenderTimeout(w4)
        w6 == IF w5.nd.config[1].active THEN [w5 EXCEPT !.timeout = TRUE, !.nd.timeout = TRUE] ELSE w5
        w7 == IF stopInterval /\ ~w2.nd.resetRenderingData THEN w6 ELSE w2
    IN  [w7 EXCEPT !.closures[id].angle = angle, !.closures[id].lastFrame = frame]

\* variant: the metadata is sent before FrameByteCount is set
pngEncoded_MetadataBeforeByteCount(w, side, e) ==
    LET c == w.closures[e.closure]
        buffer == PngEncode(e.frame)
        thresholdData == [c.thresholdData[1] EXCEPT !.FrameByteCount = buffer.byteLength,
                                                   !.FirstFrame = c.firstFrame]
    IN  [w EXCEPT !.sent = @ \o <<MetadataMessage(side, c.thresholdData[1], e.stale),
                                  FrameMessage(side, buffer, e.stale)>>,
                  !.closures[e.closure].thresholdData = Some(thresholdData),
                  !.closures[e.closure].transitionFrames = @ + 1,
                  !.closures[e.closure].firstFrame = FALSE,
                  !.encoding = @ \ {e}]

\* the .then() callback of the PNG encoding e
pngEncoded(w, side, e) ==
    LET c == w.closures[e.closure]
        buffer == PngEncode(e.frame)
        thresholdData == [c.thresholdData[1] EXCEPT !.FrameByteCount = buffer.byteLength,
                                                   !.FirstFrame = c.firstFrame]
    IN  [w EXCEPT !.sent = @ \o <<MetadataMessage(side, thresholdData, e.stale),
                                  FrameMessage(side, buffer, e.stale)>>,
                  !.closures[e.closure].thresholdData = Some(thresholdData),
                  !.closures[e.closure].transitionFrames = @ + 1,
                  !.closures[e.closure].firstFrame = FALSE,
                  !.encoding = @ \ {e}]

\* stopRendering, for one side
stopRenderingSide(w) ==
    LET w1 == IF w.nd.config # Null THEN [w EXCEPT !.nd.config[1].active = FALSE] ELSE w
        w2 == IF w1.nd.durationInterval # 0 THEN clearDurationInterval(w1) ELSE w1
    IN  [clearRenderTimeout(w2) EXCEPT !.nd.lastFrame = Null]

\* shutdown, for one side: clearTimeout without resetting the handle
shutdownSide(w) == IF w.nd.timeout THEN [w EXCEPT !.timeout = FALSE] ELSE w

\* ---------------------------------------------------------------- terrain and tile store
\* the DEM: a lattice of tiles counted from its north-west corner, one tile spanning
\* latitudeStep x longitudeStep position units
GridData ==
    [latitudeStep |-> 4, longitudeStep |-> 4, latitudeMax |-> 16, longitudeMin |-> 0,
     rows |-> 4, columns |-> 5]

\* distance of the south-west and north-east corners of the visible disc from the
\* aircraft along each axis, in position units
VisibilityRange == 3

InvalidElevation == 32767

UnknownElevation == 32766

WaterElevation == -1

DefaultTileSize == 300

\* TileManager.grid[row][column]: the tiles east of column 1 are absent (tileIndex -1,
\* open sea); the tiles of the two northern rows have 8 x 8 samples, the others 4 x 4
TilePresent(cell) == cell.column <= 1

TileRows(cell) == IF cell.row <= 1 THEN 8 ELSE 4

TileColumns(cell) == IF cell.row <= 1 THEN 8 ELSE 4

TileSouthwest(cell) ==
    [latitude |-> GridData.latitudeMax - (cell.row + 1) * GridData.latitudeStep,
     longitude |-> GridData.longitudeMin + cell.column * GridData.longitudeStep]

worldMapIndices(latitude, longitude) ==
    [row |-> (GridData.latitudeMax - 1 - latitude) \div GridData.latitudeStep,
     column |-> (longitude - GridData.longitudeMin) \div GridData.longitudeStep]

InsideLattice(cell) ==
    /\ cell.row >= 0 /\ cell.row < GridData.rows
    /\ cell.column >= 0 /\ cell.column < GridData.columns

\* Null (undefined) outside the DEM
getSouthwestCoordinateOfTile(latitude, longitude) ==
    IF InsideLattice(worldMapIndices(latitude, longitude))
    THEN Some(TileSouthwest(worldMapIndices(latitude, longitude)))
    ELSE Null

\* projectWgs84(latitude, longitude, bearing, distance) for the bearings 225 and 45,
\* on a plane
projectWgs84(latitude, longitude, bearing, distance) ==
    IF bearing = 225 THEN <<latitude - distance, longitude - distance>>
    ELSE <<latitude + distance, longitude + distance>>

\* the smallest rectangle of lattice cells around the visible disc, rows from the north
createGridLookupTable(position) ==
    LET southwest == projectWgs84(position.latitude, position.longitude, 225, VisibilityRange)
        northeast == projectWgs84(position.latitude, position.longitude, 45, VisibilityRange)
        southwestGrid == worldMapIndices(southwest[1], southwest[2])
        northeastGrid == worldMapIndices(northeast[1], northeast[2])
    IN  [r \in 1..(southwestGrid.row - northeastGrid.row + 1) |->
            [c \in 1..(northeastGrid.column - southwestGrid.column + 1) |->
                [row |-> northeastGrid.row + r - 1, column |-> southwestGrid.column + c - 1]]]

CellsOf(grid) == {grid[r][c] : r \in DOMAIN grid, c \in DOMAIN grid[1]}

\* updatePosition(grid): the tiles of the grid it decodes; it returns true iff there are any
MissingTiles(grid, decoded) == {cell \in CellsOf(grid) : TilePresent(cell)} \ decoded

\* cleanupElevationCache(grid): the decoded tiles it keeps
cleanupElevationCache(grid, decoded) == decoded \cap CellsOf(grid)

\* ---------------------------------------------------------------- world-map cache
EmptyWorldMapMetadata ==
    [southwest |-> [latitude |-> -100, longitude |-> -190],
     northeast |-> [latitude |-> -100, longitude |-> -190],
     currentGridPosition |-> [x |-> 0, y |-> 0],
     minWidthPerTile |-> 0, minHeightPerTile |-> 0, width |-> 0, height |-> 0]

ReleasedElevationData == [gpuData |-> Null, cpuData |-> Null, cachedTiles |-> 0]

\* Math.min over the sizes of the decoded tiles, starting from 5000; 5000 becomes DefaultTileSize
MinSamplesPerTile(sizes) ==
    LET candidates == sizes \cup {5000}
        smallest == CHOOSE m \in candidates : \A other \in candidates : m <= other
    IN  IF smallest = 5000 THEN DefaultTileSize ELSE smallest

\* the samples copied for one cell of the grid: WaterElevation for an absent tile,
\* UnknownElevation for a tile without elevation map, else the top-left
\* minHeightPerTile x minWidthPerTile samples of the tile
WorldMapBlock(cell, decoded) ==
    IF ~TilePresent(cell) THEN [source |-> "water", row |-> 0, column |-> 0]
    ELSE IF cell \notin decoded THEN [source |-> "unknown", row |-> 0, column |-> 0]
    ELSE [source |-> "tile", row |-> cell.row, column |-> cell.column]

\* the state updateGroundTruthPositionAndCachedTiles works on
WorldState ==
    [position |-> currentGroundTruthPosition, cachedElevationData |-> cachedElevationData,
     worldMapMetadata |-> worldMapMetadata, loadedTiles |-> loadedTiles, rebuilt |-> FALSE]

\* the body of if (loadedTiles || cachedTiles !== relevantTileCount)
rebuildWorldMap(world, position, grid, decoded) ==
    LET southwest == projectWgs84(position.latitude, position.longitude, 225, VisibilityRange)
        northeast == projectWgs84(position.latitude, position.longitude, 45, VisibilityRange)
        southwestGrid == worldMapIndices(southwest[1], southwest[2])
        northeastGrid == worldMapIndices(northeast[1], northeast[2])
        tiles == {cell \in CellsOf(grid) : TilePresent(cell) /\ cell \in decoded}
        minWidthPerTile == MinSamplesPerTile({TileColumns(cell) : cell \in tiles})
        minHeightPerTile == MinSamplesPerTile({TileRows(cell) : cell \in tiles})
        worldWidth == minWidthPerTile * Len(grid[1])
        worldHeight == minHeightPerTile * Len(grid)
        cpuData == [length |-> worldWidth * worldHeight,
                    blocks |-> [r \in DOMAIN grid |->
                                   [c \in DOMAIN grid[r] |-> WorldMapBlock(grid[r][c], decoded)]]]
    IN  [world EXCEPT
            !.cachedElevationData = [gpuData |-> Some(cpuData), cpuData |-> Some(cpuData),
                                     cachedTiles |-> Len(grid) * Len(grid[1])],
            !.worldMapMetadata =
                [@ EXCEPT !.minWidthPerTile = minWidthPerTile,
                          !.minHeightPerTile = minHeightPerTile,
                          !.southwest = TileSouthwest(southwestGrid),
                          !.northeast =
                              [latitude |-> TileSouthwest(northeastGrid).latitude + GridData.latitudeStep,
                               longitude |-> TileSouthwest(northeastGrid).longitude + GridData.longitudeStep],
                          !.width = worldWidth,
                          !.height = worldHeight],
            !.loadedTiles = cleanupElevationCache(grid, decoded),
            !.rebuilt = TRUE]

\* "calculate the correct pixel coordinate in every step" (the sizes of the tiles are
\* multiples of the angular step, so the quotients are whole pixels)
currentGridPosition(metadata, position, grid) ==
    LET southwest == getSouthwestCoordinateOfTile(position.latitude, position.longitude)
        latDelta == position.latitude - southwest[1].latitude
        longDelta == position.longitude - southwest[1].longitude
        egoIndex == worldMapIndices(position.latitude, position.longitude)
        found == {rc \in (DOMAIN grid) \X (DOMAIN grid[1]) :
                     grid[rc[1]][1].row = egoIndex.row /\ grid[rc[1]][rc[2]].column = egoIndex.column}
        yOffset == IF found = {} THEN 0 ELSE ((CHOOSE rc \in found : TRUE)[1] - 1) * metadata.minHeightPerTile
        xOffset == IF found = {} THEN 0 ELSE ((CHOOSE rc \in found : TRUE)[2] - 1) * metadata.minWidthPerTile
    IN  IF southwest # Null
        THEN [x |-> xOffset + (longDelta * metadata.minWidthPerTile) \div GridData.longitudeStep,
              y |-> yOffset + metadata.minHeightPerTile
                       - (latDelta * metadata.minHeightPerTile) \div GridData.latitudeStep]
        ELSE [x |-> metadata.width \div 2, y |-> metadata.height \div 2]

\* variant: the snapshot is compared with the number of rows of the grid
rebuildNeeded_RowCount(tilesLoaded, cachedTiles, grid) ==
    tilesLoaded \/ cachedTiles # Len(grid)

\* loadedTiles || this.cachedElevationData.cachedTiles !== relevantTileCount
rebuildNeeded(tilesLoaded, cachedTiles, grid) ==
    LET relevantTileCount == Len(grid) * Len(grid[1])
    IN  tilesLoaded \/ cachedTiles # relevantTileCount

updateGroundTruthPositionAndCachedTiles(world, position) ==
    LET grid == createGridLookupTable(position)
        missing == MissingTiles(grid, world.loadedTiles)
        decoded == world.loadedTiles \cup missing
        w1 == IF rebuildNeeded(missing # {}, world.cachedElevationData.cachedTiles, grid)
              THEN rebuildWorldMap(world, position, grid, decoded)
              ELSE [world EXCEPT !.loadedTiles = decoded]
    IN  [w1 EXCEPT !.position = position,
                   !.worldMapMetadata.currentGridPosition =
                       currentGridPosition(w1.worldMapMetadata, position, grid)]

\* ---------------------------------------------------------------- actions
NoPixel == [phase |-> "none"]

NoCalc == [stage |-> "none"]

\* store the states of the two sides a handler has produced
Commit(wl, wr) ==
    LET l == Collect(wl)
        r == Collect(wr)
    IN  /\ navigationDisplayRendering' = [side \in Sides |-> IF side = "L" THEN l.nd ELSE r.nd]
        /\ timeouts' = [side \in Sides |-> IF side = "L" THEN l.timeout ELSE r.timeout]
        /\ intervals' = [side \in Sides |-> IF side = "L" THEN l.intervals ELSE r.intervals]
        /\ closures' = [side \in Sides |-> IF side = "L" THEN l.closures ELSE r.closures]
        /\ encoding' = [side \in Sides |-> IF side = "L" THEN l.encoding ELSE r.encoding]
        /\ sent' = l.sent \o r.sent
        /\ renderStarted' = {side \in Sides : IF side = "L" THEN l.started ELSE r.started}

CommitSide(side, w) ==
    IF side = "L" THEN Commit(w, SideState("R")) ELSE Commit(SideState("L"), w)

\* the state the constructor leaves: the warm-up configured both sides with the one
\* startupConfig object, and cleanupMemory() has switched it to inactive
InitScheduler ==
    /\ initialized = TRUE
    /\ connected = TRUE
    /\ aircraftStatus = Null
    /\ currentGroundTruthPosition = NullPosition
    /\ cachedElevationData = ReleasedElevationData
    /\ worldMapMetadata = EmptyWorldMapMetadata
    /\ loadedTiles = {}
    /\ navigationDisplayRendering =
          [side \in Sides |->
              [config |-> Some([startupConfig EXCEPT !.active = FALSE]),
               timeout |-> FALSE, durationInterval |-> 0, resetRenderingData |-> TRUE,
               lastFrame |-> Null, lastTransitionData |-> EmptyTransitionData]]
    /\ timeouts = [side \in Sides |-> FALSE]
    /\ intervals = [side \in Sides |-> {}]
    /\ closures = [side \in Sides |-> <<>>]
    /\ encoding = [side \in Sides |-> {}]
    /\ sent = <<>>
    /\ renderStarted = {}
    /\ lastEvent = [type |-> "constructor", side |-> "-", changed |-> {}]

Init ==
    /\ InitScheduler
    /\ px = NoPixel
    /\ calc = NoCalc

\* the new configuration differs from the one stored for the side in a compared field
Reconfigures(side, config) ==
    \/ navigationDisplayRendering[side].config = Null
    \/ ComparedFields(navigationDisplayRendering[side].config[1]) # ComparedFields(config)

\* onAircraftStatusUpdate(data): the pattern map, then both sides in turn
AircraftStatusUpdate ==
    /\ connected
    /\ EncodingsCanWait
    /\ \E mode \in RenderingModes, capt \in ConfigsOf("L"), fo \in ConfigsOf("R"), metadata \in MetadataRows :
       \E now \in ClockReads(SideState("L"), capt) \cup ClockReads(SideState("R"), fo) :
          /\ aircraftStatus' = Some([navigationDisplayRenderingMode |-> mode])
          /\ lastEvent' = [type |-> "aircraftStatusUpdate", side |-> "-",
                           changed |-> {side \in Sides : Reconfigures(side, IF side = "L" THEN capt ELSE fo)}]
          /\ Commit(configureNavigationDisplay(SideState("L"), "L", capt, FALSE, Env(mode, TRUE), metadata, now),
                    configureNavigationDisplay(SideState("R"), "R", fo, FALSE, Env(mode, TRUE), metadata, now))
    /\ UNCHANGED <<initialized, connected, currentGroundTruthPosition, cachedElevationData,
                   worldMapMetadata, loadedTiles, px, calc>>

\* onPositionUpdate(data) -> updateGroundTruthPositionAndCachedTiles(data, false), for the
\* positions the simulator may report
PositionUpdateAt(positions) ==
    /\ connected
    /\ EncodingsCanWait
    /\ \E position \in positions :
          LET world == IF ~initialized THEN WorldState
                       ELSE updateGroundTruthPositionAndCachedTiles(WorldState, position)
          IN  /\ currentGroundTruthPosition' = world.position
              /\ cachedElevationData' = world.cachedElevationData
              /\ worldMapMetadata' = world.worldMapMetadata
              /\ loadedTiles' = world.loadedTiles
              /\ lastEvent' = [type |-> "positionUpdate", side |-> "-", changed |-> {},
                               rebuilt |-> world.rebuilt,
                               repeated |-> initialized /\ position = currentGroundTruthPosition
                                               /\ cachedElevationData.cpuData # Null]
    /\ Commit(SideState("L"), SideState("R"))
    /\ UNCHANGED <<initialized, connected, aircraftStatus, px, calc>>

PositionUpdate == PositionUpdateAt(Positions)

\* onConnectionLost() -> cleanupMemory()
ConnectionLost ==
    /\ connected
    /\ EncodingsCanWait
    /\ Commit(resetFrameData(stopRenderingSide(SideState("L"))),
              resetFrameData(stopRenderingSide(SideState("R"))))
    /\ loadedTiles' = {}
    /\ cachedElevationData' = ReleasedElevationData
    /\ lastEvent' = [type |-> "connectionLost", side |-> "-", changed |-> {}]
    /\ UNCHANGED <<initialized, connected, aircraftStatus, currentGroundTruthPosition, worldMapMetadata, px, calc>>

\* one firing of a sweep ticker the runtime runs
SweepTick ==
    /\ EncodingsCanWait
    /\ \E side \in Sides : \E id \in intervals[side] :
          /\ closures[side][id].angle < 90 + MaxOvershootTicks * RenderingMapTransitionAngularStep
          /\ CommitSide(side, sweepTick(SideState(side), side, id))
          /\ lastEvent' = [type |-> "tick", side |-> side, changed |-> {}]
    /\ UNCHANGED <<initialized, connected, aircraftStatus, currentGroundTruthPosition,
                   cachedElevationData, worldMapMetadata, loadedTiles, px, calc>>

\* a PNG encoding resolves, in any order
PngEncoded ==
    /\ \E side \in Sides : \E e \in encoding[side] :
          /\ IF side = "L"
             THEN Commit(pngEncoded(SideAfter("L", 0), "L", e), SideAfter("R", 0))
             ELSE Commit(SideAfter("L", 0), pngEncoded(SideAfter("R", 0), "R", e))
          /\ lastEvent' = [type |-> "pngEncoded", side |-> side, changed |-> {}]
    /\ UNCHANGED <<initialized, connected, aircraftStatus, currentGroundTruthPosition,
                   cachedElevationData, worldMapMetadata, loadedTiles, px, calc>>

\* the 1500 ms timeout fires: () => this.renderNavigationDisplay(side)
TimeoutFire ==
    /\ EncodingsCanWait
    /\ \E side \in Sides, metadata \in MetadataRows, kernels \in KernelOutcomes :
       \E now \in ClockReads(SideState(side), navigationDisplayRendering[side].config[1]) :
          /\ timeouts[side]
          /\ CommitSide(side, renderNavigationDisplay([SideState(side) EXCEPT !.timeout = FALSE], side, FALSE,
                                                      Env(aircraftStatus[1].navigationDisplayRenderingMode, kernels),
                                                      metadata, now))
          /\ lastEvent' = [type |-> "timeout", side |-> side, changed |-> {}]
    /\ UNCHANGED <<initialized, connected, aircraftStatus, currentGroundTruthPosition,
                   cachedElevationData, worldMapMetadata, loadedTiles, px, calc>>

\* REQ_SHUTDOWN -> shutdown()
Shutdown ==
    /\ initialized
    /\ EncodingsCanWait
    /\ initialized' = FALSE
    /\ connected' = FALSE
    /\ Commit(shutdownSide(SideState("L")), shutdownSide(SideState("R")))
    /\ lastEvent' = [type |-> "shutdown", side |-> "-", changed |-> {}]
    /\ UNCHANGED <<aircraftStatus, currentGroundTruthPosition, cachedElevationData, worldMapMetadata,
                   loadedTiles, px, calc>>

Next ==
    \/ AircraftStatusUpdate
    \/ PositionUpdate
    \/ ConnectionLost
    \/ SweepTick
    \/ PngEncoded
    \/ TimeoutFire
    \/ Shutdown

Spec == Init /\ [][Next]_vars

\* the world-map cache while the aircraft moves over land, coast and sea with both
\* displays switched off
PositionUpdateAnywhere == PositionUpdateAt(WorldPositions)

NextWorld ==
    \/ PositionUpdateAnywhere
    \/ ConnectionLost
    \/ Shutdown

SpecWorld == Init /\ [][NextWorld]_vars

\* ---------------------------------------------------------------- frame compositor
\* the Uint32 value 4278518788 that fills a new frame, as its two 16-bit halves
\* (4278518788 = 65285 * 65536 + 1028)
FillValue == [hi |-> 65285, lo |-> 1028]

\* the four bytes of a Uint32 element in the frame's Uint8ClampedArray, i.e. its RGBA
BytesOfUint32(value) ==
    <<value.lo % 256, value.lo \div 256, value.hi % 256, value.hi \div 256>>

Uint32OfBytes(rgba) ==
    [hi |-> rgba[4] * 256 + rgba[3], lo |-> rgba[2] * 256 + rgba[1]]

\* colours the colorizer draws inside the map: transparent, high-density red, water
MapColours == {<<0, 0, 0, 0>>, <<255, 0, 0, 255>>, <<0, 255, 255, 255>>}

\* config.mapWidth, config.mapHeight and config.mapOffsetX as renderNavigationDisplay sets them
mapWidth(config) ==
    IF config.arcMode THEN RenderingArcModePixelWidth ELSE RenderingRoseModePixelWidth

mapHeight(config) ==
    IF config.arcMode THEN RenderingArcModePixelHeight ELSE RenderingRoseModePixelHeight

\* Math.round((RenderingMaxPixelWidth - config.mapWidth) * 0.5)
mapOffsetX(config) == (RenderingMaxPixelWidth - mapWidth(config) + 1) \div 2

\* number of bytes of a frame buffer
FrameByteSize == RenderingMaxPixelWidth * RenderingColorChannelCount * RenderingScreenPixelHeight

\* pixel (x, y) of the image the colorizer kernel returns for a configuration whose map
\* pixels all have the given colour: the kernel fills the columns beside the map with
\* the background
ColorizerPixel(config, x, y, colour) ==
    IF x >= mapOffsetX(config) /\ x < mapOffsetX(config) + mapWidth(config)
    THEN Uint32OfBytes(colour)
    ELSE Uint32OfBytes(<<4, 4, 5, 255>>)

\* variant: the rows are written from the top of the frame
createScreenResolutionFrame_FromTop(config, colour, index) ==
    IF index < mapHeight(config) * RenderingMaxPixelWidth
    THEN ColorizerPixel(config, index % RenderingMaxPixelWidth, index \div RenderingMaxPixelWidth, colour)
    ELSE FillValue

\* element index of the Uint32 view of createScreenResolutionFrame(config, gpuData)
createScreenResolutionFrame(config, colour, index) ==
    LET sourceIndex == index - RenderingMapStartOffsetY * RenderingMaxPixelWidth
    IN  IF sourceIndex >= 0 /\ sourceIndex < mapHeight(config) * RenderingMaxPixelWidth
        THEN ColorizerPixel(config, sourceIndex % RenderingMaxPixelWidth,
                            sourceIndex \div RenderingMaxPixelWidth, colour)
        ELSE FillValue

\* tan of the sweep angles drawn below, times 10^4
TanScaled(degrees) ==
    CASE degrees = 4 -> 699
      [] degrees = 36 -> 7265
      [] degrees = 44 -> 9657
      [] degrees = 88 -> 286363

\* startAngle <= acos(dy / sqrt(dx^2 + dy^2)) * 180 / PI <= endAngle, for dy > 0
AngleWithin(dx, dy, startAngle, endAngle) ==
    LET adx == IF dx < 0 THEN -dx ELSE dx
    IN  /\ startAngle = 0 \/ adx * 10000 >= dy * TanScaled(startAngle)
        /\ endAngle = 90 \/ adx * 10000 <= dy * TanScaled(endAngle)

\* element index of the Uint32 view of arcModeTransitionFrame(config, oldFrame, newFrame,
\* startAngle, endAngle); oldFrame and newFrame are given by their element at index
arcModeTransitionFrame(config, oldSource, newSource, startAngle, endAngle, index) ==
    LET arrayIndex == index - RenderingMapStartOffsetY * RenderingMaxPixelWidth
        y == arrayIndex \div RenderingMaxPixelWidth
        x == arrayIndex % RenderingMaxPixelWidth
    IN  IF arrayIndex < 0 \/ y >= mapHeight(config) THEN FillValue
        ELSE IF ~(x >= mapOffsetX(config) /\ x < mapOffsetX(config) + mapWidth(config)) THEN FillValue
        ELSE IF AngleWithin(x - RenderingMaxPixelWidth \div 2, mapHeight(config) - y, startAngle, endAngle)
        THEN newSource
        ELSE IF oldSource # Null THEN oldSource[1]
        ELSE FillValue

\* the frames of one sweep at one pixel: drawn inputs
\*   config, x, y       the configuration and the pixel of the 768 x 768 frame
\*   colour, oldColour  the map colour of the new and of the previous colorizer image
\*   oldKind            lastFrame is null ("none"), the previous rendered frame ("full")
\*                      or the composite a first sweep left ("partial")
\*   startAngle, endAngle  of the transition frame
FirstSweepAngle == TimeAngle("L", 1000)

SampleX(config) ==
    {0, mapOffsetX(config) - 1, mapOffsetX(config), RenderingMaxPixelWidth \div 2,
     mapOffsetX(config) + mapWidth(config) - 1, mapOffsetX(config) + mapWidth(config),
     RenderingMaxPixelWidth - 1}

SampleY(config) ==
    {0, RenderingMapStartOffsetY - 1, RenderingMapStartOffsetY,
     RenderingMapStartOffsetY + mapHeight(config) \div 2,
     RenderingMapStartOffsetY + mapHeight(config) - 1, RenderingMapStartOffsetY + mapHeight(config),
     RenderingScreenPixelHeight - 1}

PixelInputs ==
    UNION {
        {[phase |-> "input", config |-> config, x |-> x, y |-> y, colour |-> colour,
          oldColour |-> oldColour, oldKind |-> oldKind, startAngle |-> startAngle, endAngle |-> endAngle,
          newFrame |-> Null, lastFrame |-> Null, kind |-> "-", pixel |-> Null] :
            x \in SampleX(config), y \in SampleY(config), colour \in MapColours, oldColour \in MapColours,
            oldKind \in {"none", "full", "partial"},
            startAngle \in {0, FirstSweepAngle}, endAngle \in {4, 44, 88}}
        : config \in {Config(TRUE, 10, TRUE, 0), Config(TRUE, 10, FALSE, 0)}}

\* arcModeTransition reads the clock only while lastFrame is null
PixelInputReachable(p) ==
    /\ p.oldKind # "none" => p.startAngle = 0
    /\ p.oldKind = "none" => p.oldColour = <<0, 0, 0, 0>>

PixelIndex(p) == p.y * RenderingMaxPixelWidth + p.x

InitFrame ==
    /\ InitScheduler
    /\ px \in {p \in PixelInputs : PixelInputReachable(p)}
    /\ calc = NoCalc

\* renderNavigationDisplay: the new frame, next to the lastFrame earlier sweeps left
RenderFrames ==
    /\ px.phase = "input"
    /\ LET previous == createScreenResolutionFrame(px.config, px.oldColour, PixelIndex(px))
       IN  px' = [px EXCEPT
                    !.phase = "rendered",
                    !.newFrame = Some(createScreenResolutionFrame(px.config, px.colour, PixelIndex(px))),
                    !.lastFrame =
                        CASE px.oldKind = "none" -> Null
                          [] px.oldKind = "full" -> Some(previous)
                          [] px.oldKind = "partial" ->
                                Some(arcModeTransitionFrame(px.config, Null, previous,
                                                            FirstSweepAngle, 90, PixelIndex(px)))]
    /\ UNCHANGED <<schedVars, calc>>

\* a tick with angle < 90
EmitTransitionFrame ==
    /\ px.phase = "rendered"
    /\ px' = [px EXCEPT !.phase = "emitted", !.kind = "transition",
                        !.pixel = Some(arcModeTransitionFrame(px.config, px.lastFrame, px.newFrame[1],
                                                              px.startAngle, px.endAngle, PixelIndex(px)))]
    /\ UNCHANGED <<schedVars, calc>>

\* the tick that reaches 90
EmitFinalFrame ==
    /\ px.phase = "rendered"
    /\ px' = [px EXCEPT !.phase = "emitted", !.kind = "final",
                        !.pixel = IF px.startAngle = 0 THEN px.newFrame
                                  ELSE Some(arcModeTransitionFrame(px.config, px.lastFrame, px.newFrame[1],
                                                                   px.startAngle, 90, PixelIndex(px)))]
    /\ UNCHANGED <<schedVars, calc>>

NextFrame ==
    \/ RenderFrames
    \/ EmitTransitionFrame
    \/ EmitFinalFrame

SpecFrame == InitFrame /\ [][NextFrame]_vars

\* ---------------------------------------------------------------- patch histogram
HistogramBinRange == 100

HistogramMaximumElevation == 29040

HistogramPatchSize == 128

\* Math.ceil(x / y) for non-negative x and positive y
CeilDiv(x, y) == (x + y - 1) \div y

HistogramBinCount ==
    CeilDiv(HistogramMaximumElevation - HistogramMinimumElevation + 1, HistogramBinRange)

\* the two callers of the histogram kernels
HistogramCallers == {"MapHandler", "NavigationDisplayRenderer"}

\* patchesInX and patchesInY: MapHandler.createElevationHistogram rounds up,
\* NavigationDisplayRenderer.render rounds down
patchesInX(caller, config) ==
    IF caller = "MapHandler" THEN CeilDiv(mapWidth(config), HistogramPatchSize)
    ELSE mapWidth(config) \div HistogramPatchSize

patchesInY(caller, config) ==
    IF caller = "MapHandler" THEN CeilDiv(mapHeight(config), HistogramPatchSize)
    ELSE mapHeight(config) \div HistogramPatchSize

patchCount(caller, config) == patchesInX(caller, config) * patchesInY(caller, config)

\* a sample takes part in the statistics
HistogramEligible(elevation) ==
    /\ elevation \notin {InvalidElevation, UnknownElevation, WaterElevation}
    /\ elevation >= HistogramMinimumElevation
    /\ elevation <= HistogramMaximumElevation

BinOf(elevation) == (elevation - HistogramMinimumElevation) \div HistogramBinRange

\* the patch of the kernel's patch grid that holds the sample at (x, y)
PatchOf(x, y, width) ==
    (y \div HistogramPatchSize) * CeilDiv(width, HistogramPatchSize) + x \div HistogramPatchSize

\* pass 1, the kernel with output [HistogramBinCount, patchCount]: thread (bin, patch)
\* counts the samples of its patch that fall into its bin; samples are the pixels of
\* the local map that are not InvalidElevation
createLocalElevationHistogram(samples, width, height, patches) ==
    [patch \in 0..(patches - 1) |->
        [bin \in 0..(HistogramBinCount - 1) |->
            Cardinality({sample \in samples :
                            /\ sample.x < width /\ sample.y < height
                            /\ PatchOf(sample.x, sample.y, width) = patch
                            /\ HistogramEligible(sample.elevation)
                            /\ BinOf(sample.elevation) = bin})]]

RECURSIVE SumOfPatches(_, _, _)
SumOfPatches(localHistograms, bin, patches) ==
    IF patches = 0 THEN 0
    ELSE localHistograms[patches - 1][bin] + SumOfPatches(localHistograms, bin, patches - 1)

\* pass 2, the kernel with output [HistogramBinCount]: thread bin adds up its column
createElevationHistogram(localHistograms, patches) ==
    [bin \in 0..(HistogramBinCount - 1) |-> SumOfPatches(localHistograms, bin, patches)]

\* the sum of the bins first..last of a histogram
RECURSIVE SumOfBins(_, _, _)
SumOfBins(histogram, first, last) ==
    IF first > last THEN 0
    ELSE IF first = last THEN histogram[first]
    ELSE LET middle == (first + last) \div 2
         IN  SumOfBins(histogram, first, middle) + SumOfBins(histogram, middle + 1, last)

\* local elevation maps: InvalidElevation everywhere but at two pixels, one in the
\* first patch and one in a corner, on a patch border or in the last patch
LocalElevationMaps(config) ==
    {{[x |-> 1, y |-> 1, elevation |-> first], [x |-> pixel[1], y |-> pixel[2], elevation |-> second]} :
        first \in {0, InvalidElevation},
        second \in {HistogramMinimumElevation - 1, HistogramMinimumElevation, WaterElevation, 0,
                    HistogramMaximumElevation, HistogramMaximumElevation + 1, UnknownElevation,
                    InvalidElevation},
        pixel \in {<<0, 0>>, <<HistogramPatchSize - 1, HistogramPatchSize - 1>>,
                   <<HistogramPatchSize, HistogramPatchSize>>,
                   <<mapWidth(config) - 1, 0>>, <<0, mapHeight(config) - 1>>,
                   <<mapWidth(config) - 1, mapHeight(config) - 1>>}}

InitHistogram ==
    /\ InitScheduler
    /\ px = NoPixel
    /\ \E caller \in HistogramCallers, arcMode \in BOOLEAN :
       \E samples \in LocalElevationMaps(Config(TRUE, 10, arcMode, 0)) :
          calc = [stage |-> "localElevationMap", caller |-> caller, config |-> Config(TRUE, 10, arcMode, 0),
                  samples |-> samples, localHistograms |-> Null, histogram |-> Null]

\* this.localElevationHistogram(localElevationMap, config.mapWidth, config.mapHeight)
LocalElevationHistogram ==
    /\ calc.stage = "localElevationMap"
    /\ calc' = [calc EXCEPT
                   !.stage = "localHistograms",
                   !.localHistograms =
                       Some(createLocalElevationHistogram(calc.samples, mapWidth(calc.config), mapHeight(calc.config),
                                                          patchCount(calc.caller, calc.config)))]
    /\ UNCHANGED <<schedVars, px>>

\* this.elevationHistogram(localHistograms, patchCount)
ElevationHistogram ==
    /\ calc.stage = "localHistograms"
    /\ calc' = [calc EXCEPT
                   !.stage = "histogram",
                   !.histogram = Some(createElevationHistogram(calc.localHistograms[1],
                                                               patchCount(calc.caller, calc.config)))]
    /\ UNCHANGED <<schedVars, px>>

NextHistogram ==
    \/ LocalElevationHistogram
    \/ ElevationHistogram

SpecHistogram == InitHistogram /\ [][NextHistogram]_vars

\* ---------------------------------------------------------------- rendering thresholds
\* RenderingLowerPercentile 0.85 and RenderingUpperPercentile 0.95, in percent
RenderingLowerPercentile == 85

RenderingUpperPercentile == 95

RenderingFlatEarthThreshold == 100

RenderingNormalModeLowDensityGreenOffset == 2000

RenderingNormalModeHighDensityGreenOffset == 1000

RenderingNormalModeHighDensityYellowOffset == 1000

RenderingNormalModeHighDensityRedOffset == 2000

RenderingCutOffAltitudeMinimimum == 200

RenderingCutOffAltitudeMaximum == 400

RenderingGearDownOffset == 250

RenderingNonGearDownOffset == 500

MinOf(a, b) == IF a <= b THEN a ELSE b

\* the first bin from cutOffAltitudeBin on at which the accumulated share of the
\* samples reaches the percentile, -1 when there is none (totalFrequency = 0); the
\* share grows at the measured bins only, so the first such bin is a measured one
PercentileBin(histogram, cutOffAltitudeBin, totalFrequency, percentile) ==
    LET reached == {bin \in cutOffAltitudeBin..(HistogramBinCount - 1) :
                       /\ totalFrequency > 0
                       /\ histogram[bin] > 0
                       /\ SumOfBins(histogram, cutOffAltitudeBin, bin) * 100 >= percentile * totalFrequency}
    IN  IF reached = {} THEN -1 ELSE CHOOSE bin \in reached : \A other \in reached : bin <= other

\* the statistics a32nxRenderNavigationDisplay collects from the histogram;
\* verticalSpeed is even, so that verticalSpeed * 0.5 is a whole number
NavigationDisplayStatistics(histogram, altitude, verticalSpeed, gearDownAltitudeOffset, cutOffAltitude) ==
    LET cutOffAltitudeBin == (cutOffAltitude - HistogramMinimumElevation) \div HistogramBinRange
        referenceAltitude == altitude + (IF verticalSpeed <= -1000 THEN verticalSpeed \div 2 ELSE 0)
        totalFrequency == SumOfBins(histogram, cutOffAltitudeBin, HistogramBinCount - 1)
        measured == {bin \in cutOffAltitudeBin..(HistogramBinCount - 1) : histogram[bin] > 0}
        minElevationBin == IF measured = {} THEN -1
                           ELSE CHOOSE bin \in measured : \A other \in measured : bin <= other
        maxElevationBin == IF measured = {} THEN -1
                           ELSE CHOOSE bin \in measured : \A other \in measured : bin >= other
        lowerBin == PercentileBin(histogram, cutOffAltitudeBin, totalFrequency, RenderingLowerPercentile)
        upperFound == PercentileBin(histogram, cutOffAltitudeBin, totalFrequency, RenderingUpperPercentile)
        upperBin == IF upperFound < 0 THEN HistogramBinCount - 1 ELSE upperFound
        minElevation == IF minElevationBin >= 0
                        THEN minElevationBin * HistogramBinRange + HistogramMinimumElevation ELSE -1
        maxElevation == IF maxElevationBin >= 0
                        THEN (maxElevationBin + 1) * HistogramBinRange + HistogramMinimumElevation ELSE 0
    IN  [referenceAltitude |-> referenceAltitude,
         gearDownAltitudeOffset |-> gearDownAltitudeOffset,
         lowerPercentileElevation |-> lowerBin * HistogramBinRange + HistogramMinimumElevation,
         upperPercentileElevation |-> upperBin * HistogramBinRange + HistogramMinimumElevation,
         minElevation |-> minElevation,
         maxElevation |-> maxElevation,
         flatEarth |-> RenderingFlatEarthThreshold - (maxElevation - minElevation),
         \* maxElevation is 0 or a multiple of HistogramBinRange: the half is whole
         halfElevation |-> maxElevation \div 2]

NormalModeSelected_Above(statistics) ==
    statistics.maxElevation > statistics.referenceAltitude - statistics.gearDownAltitudeOffset

\* maxElevation >= referenceAltitude - gearDownAltitudeOffset
NormalModeSelected(statistics) ==
    statistics.maxElevation >= statistics.referenceAltitude - statistics.gearDownAltitudeOffset

\* <<lowDensityGreen, highDensityGreen>>
a32nxCalculateNormalModeGreenThresholds(referenceAltitude, minimumElevation, flatEarth, lowerPercentile, halfElevation) ==
    LET lowDensityGreen ==
            IF referenceAltitude - RenderingNormalModeLowDensityGreenOffset <= minimumElevation
            THEN minimumElevation + 200
            ELSE referenceAltitude - RenderingNormalModeLowDensityGreenOffset
        highDensityGreen ==
            IF referenceAltitude - RenderingNormalModeHighDensityGreenOffset <= minimumElevation
            THEN minimumElevation + 200
            ELSE referenceAltitude - RenderingNormalModeHighDensityGreenOffset
    IN  <<IF flatEarth >= 0 /\ halfElevation <= lowerPercentile /\ lowDensityGreen > halfElevation
             THEN halfElevation
          ELSE IF flatEarth >= 0 /\ halfElevation > lowerPercentile /\ lowDensityGreen > lowerPercentile
             THEN lowerPercentile
          ELSE lowDensityGreen,
          highDensityGreen>>

\* <<lowDensityYellow, highDensityYellow, highDensityRed>>
a32nxCalculateNormalModeWarningThresholds(referenceAltitude, minimumElevation, gearDownAltitudeOffset) ==
    <<IF referenceAltitude - gearDownAltitudeOffset <= minimumElevation
         THEN minimumElevation + 200
         ELSE referenceAltitude - gearDownAltitudeOffset,
      referenceAltitude + RenderingNormalModeHighDensityYellowOffset,
      referenceAltitude + RenderingNormalModeHighDensityRedOffset>>

\* the three thresholds before the sanity clamp, in hundredths of a foot (the factors
\* 0.65 and 0.95 are taken exactly): <<lowerDensity, higherDensity, solidDensity>>
PeaksModeUnclamped(lowerPercentile, upperPercentile, halfElevation, minimumElevation, maximumElevation) ==
    <<100 * MinOf(lowerPercentile, halfElevation),
      MinOf(100 * upperPercentile, (maximumElevation - minimumElevation) * 65 + 100 * minimumElevation),
      (maximumElevation - minimumElevation) * 95 + 100 * minimumElevation>>

PeaksModeClamped_TripleOnly(lowerPercentile, upperPercentile, halfElevation, minimumElevation, maximumElevation) ==
    LET unclamped == PeaksModeUnclamped(lowerPercentile, upperPercentile, halfElevation,
                                        minimumElevation, maximumElevation)
    IN  \/ unclamped[1] >= unclamped[2]
        \/ unclamped[1] >= unclamped[3]
        \/ unclamped[2] >= unclamped[3]

\* the condition of the sanity clamp
PeaksModeClamped(lowerPercentile, upperPercentile, halfElevation, minimumElevation, maximumElevation) ==
    LET unclamped == PeaksModeUnclamped(lowerPercentile, upperPercentile, halfElevation,
                                        minimumElevation, maximumElevation)
    IN  \/ unclamped[1] >= unclamped[2]
        \/ unclamped[1] >= unclamped[3]
        \/ unclamped[2] >= unclamped[3]
        \/ lowerPercentile >= upperPercentile
        \/ 100 * lowerPercentile >= unclamped[3]
        \/ 100 * upperPercentile >= unclamped[3]

\* <<lowerDensity, higherDensity, solidDensity>> in hundredths of a foot
a32nxCalculatePeaksModeThresholds(lowerPercentile, upperPercentile, halfElevation, minimumElevation, maximumElevation) ==
    LET unclamped == PeaksModeUnclamped(lowerPercentile, upperPercentile, halfElevation,
                                        minimumElevation, maximumElevation)
    IN  IF PeaksModeClamped(lowerPercentile, upperPercentile, halfElevation, minimumElevation, maximumElevation)
        THEN <<unclamped[1], 100 * (maximumElevation + 100), 100 * (maximumElevation + 100)>>
        ELSE unclamped

\* the metadata row of normal mode: pixel 0 (rendering mode, minimum elevation, maximum
\* elevation, solid red threshold) and pixel 1 (high density yellow, low density
\* yellow, high density green, low density green)
NormalModeMetadata_YellowSwapped(statistics, warningThresholds, greenThresholds) ==
    <<0, statistics.minElevation, statistics.maxElevation, warningThresholds[3],
      warningThresholds[1], warningThresholds[2], greenThresholds[2], greenThresholds[1]>>

NormalModeMetadata(statistics, warningThresholds, greenThresholds) ==
    <<0, statistics.minElevation, statistics.maxElevation, warningThresholds[3],
      warningThresholds[2], warningThresholds[1], greenThresholds[2], greenThresholds[1]>>

\* the metadata row of peaks mode: pixel 0 (rendering mode, minimum elevation, maximum
\* elevation, solid green threshold) and pixel 1 (high density green, low density
\* green, 0, 0); thresholds[1], the smaller of the lower percentile and the half
\* elevation, is a whole number of feet, the other two stay in hundredths of a foot
PeaksModeMetadata(statistics, thresholds) ==
    <<1, statistics.minElevation, statistics.maxElevation, thresholds[3],
      thresholds[2], thresholds[1] \div 100, 0, 0>>

\* histograms with up to three measured bins (-500, 0, 200, 900, 2500 and 9400 ft) and
\* even, bottom-heavy and top-heavy weights; no accumulated share lies on a percentile
Histograms ==
    {[bin \in 0..(HistogramBinCount - 1) |->
         IF bin = bins[1] THEN weights[1] ELSE IF bin = bins[2] THEN weights[2]
         ELSE IF bin = bins[3] THEN weights[3] ELSE 0] :
       bins \in {triple \in {0, 5, 7, 14, 30, 99} \X {0, 5, 7, 14, 30, 99} \X {0, 5, 7, 14, 30, 99} :
                     triple[1] < triple[2] /\ triple[2] < triple[3]},
       weights \in {<<0, 0, 0>>, <<1, 0, 0>>, <<1, 1, 1>>, <<88, 8, 4>>, <<4, 8, 88>>}}

ThresholdInputs ==
    {[histogram |-> histogram, altitude |-> altitude, verticalSpeed |-> verticalSpeed,
      gearDownAltitudeOffset |-> gearDownAltitudeOffset, cutOffAltitude |-> cutOffAltitude] :
       histogram \in Histograms,
       altitude \in {0, 300, 1100, 1500, 3000, 10000},
       verticalSpeed \in {0, -998, -1000, -1500},
       gearDownAltitudeOffset \in {RenderingGearDownOffset, RenderingNonGearDownOffset},
       cutOffAltitude \in {HistogramMinimumElevation, RenderingCutOffAltitudeMinimimum, RenderingCutOffAltitudeMaximum}}

InitThresholds ==
    /\ InitScheduler
    /\ px = NoPixel
    /\ \E inputs \in ThresholdInputs :
          calc = [stage |-> "renderNavigationDisplay", inputs |-> inputs, statistics |-> Null,
                  thresholds |-> Null, metadata |-> Null, thresholdData |-> Null]

\* a32nxRenderNavigationDisplay up to the choice of the mode
Statistics ==
    /\ calc.stage = "renderNavigationDisplay"
    /\ calc' = [calc EXCEPT
                   !.stage = "statistics",
                   !.statistics = Some(NavigationDisplayStatistics(
                                           calc.inputs.histogram, calc.inputs.altitude, calc.inputs.verticalSpeed,
                                           calc.inputs.gearDownAltitudeOffset, calc.inputs.cutOffAltitude))]
    /\ UNCHANGED <<schedVars, px>>

\* a32nxRenderNormalMode: <<lowDensityGreen, highDensityGreen, lowDensityYellow,
\* highDensityYellow, highDensityRed>>
a32nxRenderNormalMode ==
    /\ calc.stage = "statistics"
    /\ NormalModeSelected(calc.statistics[1])
    /\ LET statistics == calc.statistics[1]
           warningThresholds == a32nxCalculateNormalModeWarningThresholds(
                                    statistics.referenceAltitude, statistics.minElevation,
                                    statistics.gearDownAltitudeOffset)
           greenThresholds == a32nxCalculateNormalModeGreenThresholds(
                                  statistics.referenceAltitude, statistics.minElevation, statistics.flatEarth,
                                  statistics.lowerPercentileElevation, statistics.halfElevation)
       IN  calc' = [calc EXCEPT !.stage = "normalMode",
                                !.thresholds = Some(greenThresholds \o warningThresholds),
                                !.metadata = Some(NormalModeMetadata(statistics, warningThresholds,
                                                                     greenThresholds))]
    /\ UNCHANGED <<schedVars, px>>

\* a32nxRenderPeaksMode
a32nxRenderPeaksMode ==
    /\ calc.stage = "statistics"
    /\ ~NormalModeSelected(calc.statistics[1])
    /\ LET statistics == calc.statistics[1]
       IN  calc' = [calc EXCEPT
                       !.stage = "peaksMode",
                       !.thresholds = Some(a32nxCalculatePeaksModeThresholds(
                                               statistics.lowerPercentileElevation, statistics.upperPercentileElevation,
                                               statistics.halfElevation, statistics.minElevation,
                                               statistics.maxElevation)),
                       !.metadata = Some(PeaksModeMetadata(statistics, a32nxCalculatePeaksModeThresholds(
                                               statistics.lowerPercentileElevation, statistics.upperPercentileElevation,
                                               statistics.halfElevation, statistics.minElevation,
                                               statistics.maxElevation)))]
    /\ UNCHANGED <<schedVars, px>>

\* renderNavigationDisplay: frame.splice(frame.length - 1)[0] and this.analyzeMetadata
AnalyzeMetadata ==
    /\ calc.stage \in {"normalMode", "peaksMode"}
    /\ calc' = [calc EXCEPT
                   !.stage = "thresholdData",
                   !.thresholdData = Some(analyzeMetadata(calc.metadata[1], calc.inputs.cutOffAltitude))]
    /\ UNCHANGED <<schedVars, px>>

NextThresholds ==
    \/ Statistics
    \/ a32nxRenderNormalMode
    \/ a32nxRenderPeaksMode
    \/ AnalyzeMetadata

SpecThresholds == InitThresholds /\ [][NextThresholds]_vars

\* ---------------------------------------------------------------- pixel classification
\* what the kernel returns for a pixel: the density pattern it draws and the colour
Transparent == [draw |-> "none", color |-> <<0, 0, 0, 0>>]

SolidPixel(color) == [draw |-> "solid", color |-> color]

a32nxDrawHighDensityPixel(color) == [draw |-> "a32nxDrawHighDensityPixel", color |-> color]

a32nxDrawLowDensityPixel(color) == [draw |-> "a32nxDrawLowDensityPixel", color |-> color]

a32nxDrawWaterDensityPixel(color) == [draw |-> "a32nxDrawWaterDensityPixel", color |-> color]

NormalModePixel_GreenUpToYellow(elevation, warningThresholds, greenThresholds, absoluteCutOffAltitude) ==
    IF /\ elevation \notin {InvalidElevation, UnknownElevation, WaterElevation}
       /\ elevation >= absoluteCutOffAltitude
    THEN IF elevation >= warningThresholds[3] THEN a32nxDrawHighDensityPixel(<<255, 0, 0, 255>>)
         ELSE IF elevation >= warningThresholds[2] THEN a32nxDrawHighDensityPixel(<<255, 255, 50, 255>>)
         ELSE IF elevation >= greenThresholds[2] /\ elevation < warningThresholds[2]
              THEN a32nxDrawHighDensityPixel(<<0, 255, 0, 255>>)
         ELSE IF elevation >= warningThresholds[1] /\ elevation < warningThresholds[2]
              THEN a32nxDrawLowDensityPixel(<<255, 255, 50, 255>>)
         ELSE IF elevation >= greenThresholds[1] /\ elevation < greenThresholds[2]
              THEN a32nxDrawLowDensityPixel(<<0, 255, 0, 255>>)
         ELSE Transparent
    ELSE IF elevation = WaterElevation THEN a32nxDrawWaterDensityPixel(<<0, 255, 255, 255>>)
    ELSE IF elevation = UnknownElevation THEN a32nxDrawHighDensityPixel(<<255, 148, 255, 255>>)
    ELSE Transparent

\* a32nxRenderNormalMode for a pixel of the map (this.thread.y < height)
NormalModePixel(elevation, warningThresholds, greenThresholds, absoluteCutOffAltitude) ==
    IF /\ elevation \notin {InvalidElevation, UnknownElevation, WaterElevation}
       /\ elevation >= absoluteCutOffAltitude
    THEN IF elevation >= warningThresholds[3] THEN a32nxDrawHighDensityPixel(<<255, 0, 0, 255>>)
         ELSE IF elevation >= warningThresholds[2] THEN a32nxDrawHighDensityPixel(<<255, 255, 50, 255>>)
         ELSE IF elevation >= greenThresholds[2] /\ elevation < warningThresholds[1]
              THEN a32nxDrawHighDensityPixel(<<0, 255, 0, 255>>)
         ELSE IF elevation >= warningThresholds[1] /\ elevation < warningThresholds[2]
              THEN a32nxDrawLowDensityPixel(<<255, 255, 50, 255>>)
         ELSE IF elevation >= greenThresholds[1] /\ elevation < greenThresholds[2]
              THEN a32nxDrawLowDensityPixel(<<0, 255, 0, 255>>)
         ELSE Transparent
    ELSE IF elevation = WaterElevation THEN a32nxDrawWaterDensityPixel(<<0, 255, 255, 255>>)
    ELSE IF elevation = UnknownElevation THEN a32nxDrawHighDensityPixel(<<255, 148, 255, 255>>)
    ELSE Transparent

\* a32nxRenderPeaksMode for a pixel of the map; thresholds in hundredths of a foot
PeaksModePixel(elevation, thresholds) ==
    IF elevation \notin {InvalidElevation, UnknownElevation, WaterElevation}
    THEN IF thresholds[3] <= 100 * elevation THEN SolidPixel(<<0, 255, 0, 255>>)
         ELSE IF thresholds[2] <= 100 * elevation THEN a32nxDrawHighDensityPixel(<<0, 255, 0, 255>>)
         ELSE IF thresholds[1] <= 100 * elevation THEN a32nxDrawLowDensityPixel(<<0, 255, 0, 255>>)
         ELSE Transparent
    ELSE IF elevation = WaterElevation THEN a32nxDrawWaterDensityPixel(<<0, 255, 255, 255>>)
    ELSE IF elevation = UnknownElevation THEN a32nxDrawHighDensityPixel(<<255, 148, 255, 255>>)
    ELSE Transparent

\* a32nxRenderNavigationDisplay for a pixel of the map: the statistics, the mode, the
\* thresholds of the mode and the pixel
RenderedPixel(inputs, elevation) ==
    LET statistics == NavigationDisplayStatistics(inputs.histogram, inputs.altitude, inputs.verticalSpeed,
                                                  inputs.gearDownAltitudeOffset, inputs.cutOffAltitude)
        warningThresholds == a32nxCalculateNormalModeWarningThresholds(
                                 statistics.referenceAltitude, statistics.minElevation,
                                 statistics.gearDownAltitudeOffset)
        greenThresholds == a32nxCalculateNormalModeGreenThresholds(
                               statistics.referenceAltitude, statistics.minElevation, statistics.flatEarth,
                               statistics.lowerPercentileElevation, statistics.halfElevation)
        thresholds == a32nxCalculatePeaksModeThresholds(
                          statistics.lowerPercentileElevation, statistics.upperPercentileElevation,
                          statistics.halfElevation, statistics.minElevation, statistics.maxElevation)
    IN  IF NormalModeSelected(statistics)
        THEN [mode |-> 0, thresholds |-> greenThresholds \o warningThresholds,
              pixel |-> NormalModePixel(elevation, warningThresholds, greenThresholds, inputs.cutOffAltitude)]
        ELSE [mode |-> 1, thresholds |-> thresholds, pixel |-> PeaksModePixel(elevation, thresholds)]

\* elevations of a pixel of the local map: the sentinels and terrain around the
\* cut-off altitudes and the thresholds
InitColorizer ==
    /\ InitScheduler
    /\ px = NoPixel
    /\ \E inputs \in {i \in ThresholdInputs : i.verticalSpeed = 0 /\ i.altitude \in {300, 1500, 3000}},
          elevation \in {InvalidElevation, UnknownElevation, WaterElevation,
                         -100, 0, 150, 250, 300, 450, 600, 950, 1000, 1200, 2500, 2600, 3500, 9450} :
          calc = [stage |-> "renderNavigationDisplay", inputs |-> inputs, elevation |-> elevation,
                  rendered |-> Null]

\* one thread of the kernel: this.thread.y < height
RenderPixel ==
    /\ calc.stage = "renderNavigationDisplay"
    /\ calc' = [calc EXCEPT !.stage = "pixel",
                            !.rendered = Some(RenderedPixel(calc.inputs, calc.elevation))]
    /\ UNCHANGED <<schedVars, px>>

NextColorizer == RenderPixel

SpecColorizer == InitColorizer /\ [][NextColorizer]_vars

\* ---------------------------------------------------------------- cut-off altitude
\* RenderingMaxAirportDistance 4.0 nm, in hundredths of a nautical mile
RenderingMaxAirportDistance == 400

\* FeetPerNauticalMile 6076.12 and ThreeNauticalMilesInFeet 18228.3, in hundredths of a foot
FeetPerNauticalMile == 607612

ThreeNauticalMilesInFeet == 1822830

\* tan(0.0523599) * FeetPerNauticalMile / 100 = 3.18436...: the height in feet over one
\* hundredth of a nautical mile at the glide of 3 degrees, times 100000
GlideLimit == 318436

\* what a read of cpuData gives: a number, or undefined outside of the array
Sample(value) == [defined |-> TRUE, value |-> value]

UndefinedSample == [defined |-> FALSE, value |-> 0]

\* extractElevation; index is the floored map index of the destination, cpuData is Null
\* or the sequence of the cached samples
extractElevation(cpuData, index) ==
    IF cpuData = Null \/ Len(cpuData[1]) = 0 THEN Sample(InvalidElevation)
    ELSE IF index >= Len(cpuData[1]) THEN Sample(UnknownElevation)
    ELSE IF index < 0 THEN UndefinedSample
    ELSE Sample(cpuData[1][index + 1])

GlideBelowLimit_Always(opposite, distance) == TRUE

\* the glide to the destination is below 0.0523599 rad; distance in hundredths of a
\* nautical mile; a comparison with NaN (an undefined sample) is false
GlideBelowLimit(opposite, distance) ==
    \/ ~opposite.defined
    \/ ~(opposite.value > 0 /\ distance > 0)
    \/ opposite.value * 100000 < distance * GlideLimit

GlideIsZero(opposite, distance) ==
    ~opposite.defined \/ ~(opposite.value > 0 /\ distance > 0)

\* Math.round(slope * (distanceFeet - FeetPerNauticalMile) + RenderingCutOffAltitudeMaximum)
LinearCutOffAltitude(distance) ==
    RoundDiv(RenderingCutOffAltitudeMaximum * ThreeNauticalMilesInFeet
                - (RenderingCutOffAltitudeMaximum - RenderingCutOffAltitudeMinimimum)
                     * ((distance * FeetPerNauticalMile) \div 100 - FeetPerNauticalMile),
             ThreeNauticalMilesInFeet)

MaxOf(a, b) == IF a >= b THEN a ELSE b

calculateAbsoluteCutOffAltitude_NoInvalidCheck(status, cpuData, index, distance) ==
    IF status = Null \/ ~status[1].destinationDataValid THEN HistogramMinimumElevation
    ELSE RenderingCutOffAltitudeMaximum

\* status is Null or the aircraft status; distance is the result of distanceWgs84 in
\* hundredths of a nautical mile
calculateAbsoluteCutOffAltitude(status, cpuData, index, distance) ==
    IF status = Null \/ ~status[1].destinationDataValid THEN HistogramMinimumElevation
    ELSE LET destinationElevation == extractElevation(cpuData, index)
             opposite == [defined |-> destinationElevation.defined,
                          value |-> status[1].altitude - destinationElevation.value]
         IN  IF destinationElevation = Sample(InvalidElevation) THEN HistogramMinimumElevation
             ELSE IF distance > RenderingMaxAirportDistance THEN RenderingCutOffAltitudeMaximum
             ELSE IF ~GlideBelowLimit(opposite, distance) THEN RenderingCutOffAltitudeMaximum
             ELSE IF distance <= 100 \/ GlideIsZero(opposite, distance) THEN RenderingCutOffAltitudeMinimimum
             ELSE MinOf(MaxOf(LinearCutOffAltitude(distance), RenderingCutOffAltitudeMinimimum),
                        RenderingCutOffAltitudeMaximum)

\* aircraft statuses: none, without and with valid destination data; the cache: none,
\* empty, and one with terrain, water and sentinel samples; distances around 1 and 4 nm
InitCutOff ==
    /\ InitScheduler
    /\ px = NoPixel
    /\ \E status \in {Null} \cup {Some([destinationDataValid |-> valid, altitude |-> altitude]) :
                                      valid \in BOOLEAN, altitude \in {0, 300, 1500}},
          cpuData \in {Null, Some(<<>>), Some(<<0, 1000, WaterElevation, UnknownElevation, InvalidElevation>>)},
          index \in -1..5,
          distance \in {0, 50, 100, 101, 250, 399, 400, 401, 1000} :
          calc = [stage |-> "renderNavigationDisplay", aircraftStatus |-> status, cpuData |-> cpuData,
                  index |-> index, distance |-> distance, cutOffAltitude |-> Null]

CalculateAbsoluteCutOffAltitude ==
    /\ calc.stage = "renderNavigationDisplay"
    /\ calc' = [calc EXCEPT
                   !.stage = "cutOffAltitude",
                   !.cutOffAltitude = Some(calculateAbsoluteCutOffAltitude(calc.aircraftStatus, calc.cpuData,
                                                                           calc.index, calc.distance))]
    /\ UNCHANGED <<schedVars, px>>

NextCutOff == CalculateAbsoluteCutOffAltitude

SpecCutOff == InitCutOff /\ [][NextCutOff]_vars

\* ---------------------------------------------------------------- elevation lookup
\* positions and pixel deltas are in quarters of a pixel, which doubles hold exactly

\* Math.floor of the index of extractElevation:
\* (currentGridPosition.y + latPixelDelta) * width + currentGridPosition.x + longPixelDelta
MapIndex(gridPosition, latPixelDelta, longPixelDelta, width) ==
    ((gridPosition.y + latPixelDelta) * width
        + gridPosition.x + longPixelDelta) \div 4

\* the cache: none, empty, and a world map of 2 rows and 3 columns whose samples name
\* their row and column; the aircraft on and between the pixel borders; destinations
\* inside of the map and beyond each of its edges
InitExtract ==
    /\ InitScheduler
    /\ px = NoPixel
    /\ \E cpuData \in {Null, Some(<<>>), Some(<<100, 101, 102, 110, 111, 112>>)},
          y \in {0, 2, 4, 5, 7},
          x \in {0, 1, 4, 6, 11},
          latPixelDelta \in {-8, -4, -1, 0, 1, 4, 8},
          longPixelDelta \in {-12, -4, -1, 0, 1, 4, 8, 12} :
          calc = [stage |-> "calculateAbsoluteCutOffAltitude", cpuData |-> cpuData, width |-> 3,
                  currentGridPosition |-> [x |-> x, y |-> y],
                  latPixelDelta |-> latPixelDelta, longPixelDelta |-> longPixelDelta,
                  elevation |-> Null]

\* this.extractElevation(destinationLatitude, destinationLongitude)
ExtractElevation ==
    /\ calc.stage = "calculateAbsoluteCutOffAltitude"
    /\ calc' = [calc EXCEPT
                   !.stage = "extractElevation",
                   !.elevation = Some(extractElevation(calc.cpuData,
                                          MapIndex(calc.currentGridPosition, calc.latPixelDelta,
                                                   calc.longPixelDelta, calc.width)))]
    /\ UNCHANGED <<schedVars, px>>

SpecExtract == InitExtract /\ [][ExtractElevation]_vars

\* ---------------------------------------------------------------- local-map projector
\* delta[0] ** 2 + delta[1] ** 2 of the output pixel, times 4 (centerX is ndWidth / 2)
DistancePixelsSquared4(thread, ndWidth, ndHeight) ==
    (2 * thread.x - ndWidth) * (2 * thread.x - ndWidth)
        + 4 * (ndHeight - thread.y) * (ndHeight - thread.y)

\* what the kernel gives for one output pixel: the elevation, and whether and where the
\* world map was read
KernelConstant(elevation) == [sampled |-> FALSE, y |-> 0, x |-> 0, elevation |-> Sample(elevation)]

WorldMapRead(y, x, elevation) == [sampled |-> TRUE, y |-> y, x |-> x, elevation |-> elevation]

\* worldMap[y][x] outside of the array: undefined on the CPU, any texel or 0 on the GPU
OutOfBoundsReads(worldMap) ==
    {UndefinedSample, Sample(0)}
        \cup {Sample(worldMap[row][column]) : row \in DOMAIN worldMap, column \in DOMAIN worldMap[1]}

\* createLocalElevationMap from the bound check on; the projected position is given by
\* its pixel deltas, in quarters of a pixel like currentWorldGrid
createLocalElevationMap(thread, currentWorldGrid, latPixelDelta, longPixelDelta, worldMap, worldMapWidth, worldMapHeight, ndWidth, ndHeight, arcMode) ==
    LET y == (currentWorldGrid.y + latPixelDelta) \div 4
        x == (currentWorldGrid.x + longPixelDelta) \div 4
    IN  IF arcMode /\ DistancePixelsSquared4(thread, ndWidth, ndHeight) > 4 * ndHeight * ndHeight
        THEN {KernelConstant(InvalidElevation)}
        ELSE IF y < 0 \/ y > worldMapHeight \/ x < 0 \/ x > worldMapWidth
        THEN {KernelConstant(UnknownElevation)}
        ELSE IF y < worldMapHeight /\ x < worldMapWidth
        THEN {WorldMapRead(y, x, Sample(worldMap[y + 1][x + 1]))}
        ELSE {WorldMapRead(y, x, elevation) : elevation \in OutOfBoundsReads(worldMap)}

\* a display of 6 x 4 pixels over a world map of 2 rows and 3 columns; projected
\* positions inside of the world map, on its last row and column and beyond each edge
InitProjector ==
    /\ InitScheduler
    /\ px = NoPixel
    /\ \E arcMode \in BOOLEAN, threadX \in 0..5, threadY \in 0..3,
          gridX \in {0, 6}, gridY \in {0, 5},
          latPixelDelta \in {-4, 0, 3, 4, 8}, longPixelDelta \in {-4, 0, 6, 8, 12} :
          calc = [stage |-> "kernel", arcMode |-> arcMode, thread |-> [x |-> threadX, y |-> threadY],
                  ndWidth |-> 6, ndHeight |-> 4,
                  currentWorldGrid |-> [x |-> gridX, y |-> gridY],
                  latPixelDelta |-> latPixelDelta, longPixelDelta |-> longPixelDelta,
                  worldMap |-> <<<<100, 101, 102>>, <<110, 111, 112>>>>,
                  worldMapWidth |-> 3, worldMapHeight |-> 2,
                  result |-> Null]

CreateLocalElevationMap ==
    /\ calc.stage = "kernel"
    /\ \E result \in createLocalElevationMap(calc.thread, calc.currentWorldGrid, calc.latPixelDelta,
                                             calc.longPixelDelta, calc.worldMap, calc.worldMapWidth,
                                             calc.worldMapHeight, calc.ndWidth, calc.ndHeight,
                                             calc.arcMode) :
          calc' = [calc EXCEPT !.stage = "localElevationMap", !.result = Some(result)]
    /\ UNCHANGED <<schedVars, px>>

SpecProjector == InitProjector /\ [][CreateLocalElevationMap]_vars

\* ---------------------------------------------------------------- renderer tile cache
\* NavigationDisplayRenderer: the arrays of the code are sequences, the element k of an
\* array is the element k + 1 of its sequence
InvalidDataValue == -1

FlattenGridRowIndex == 0

FlattenGridColumnIndex == 1

FlattenGridTileIndex == 2

FlattenGridRowCount == 3

FlattenGridColumnCount == 4

FlattenGridEntryCount == 5

\* array.findIndex(predicate): the first index, or -1
FindIndex(array, Matches(_)) ==
    LET found == {k \in DOMAIN array : Matches(array[k])}
    IN  IF found = {} THEN -1 ELSE (CHOOSE k \in found : \A other \in found : k <= other) - 1

\* array.splice(index, 1)
Splice(array, index) ==
    [k \in 1..(Len(array) - 1) |-> IF k <= index THEN array[k] ELSE array[k + 1]]

RECURSIVE FlattenFrom(_, _)
FlattenFrom(arr, i) ==
    IF i > Len(arr) THEN <<>> ELSE arr[i] \o FlattenFrom(arr, i + 1)

\* NavigationDisplayRenderer.fastFlatten: Null stands for the TypeError of
\* arr[arr.length - 1].length on an empty array
fastFlatten(arr) ==
    IF Len(arr) = 0 THEN Null ELSE Some(FlattenFrom(arr, 1))

findFlattenGridDataOffset(flattenedGridData, row, column) ==
    LET found == {i \in 0..(flattenedGridData.tileCount - 1) :
                     /\ row = flattenedGridData.grid[i * FlattenGridEntryCount + FlattenGridRowIndex + 1]
                     /\ column = flattenedGridData.grid[i * FlattenGridEntryCount + FlattenGridColumnIndex + 1]}
    IN  IF found = {} THEN -1
        ELSE (CHOOSE i \in found : \A other \in found : i <= other) * FlattenGridEntryCount

\* one round of the loop "cleanup cached data and collect whitelist entries"
CleanupEntry(st, i) ==
    LET offset == i * FlattenGridEntryCount
        gridTile == st.grid[offset + FlattenGridTileIndex + 1]
        tileIndex == FindIndex(st.indices, LAMBDA tile : tile = gridTile)
        gridIndex == FindIndex(st.whitelist,
                               LAMBDA entry : /\ st.grid[offset + FlattenGridRowIndex + 1] = entry.row
                                              /\ st.grid[offset + FlattenGridColumnIndex + 1] = entry.column)
        reset == [st EXCEPT !.grid[offset + FlattenGridRowCount + 1] = InvalidDataValue,
                            !.grid[offset + FlattenGridColumnCount + 1] = InvalidDataValue]
    IN  IF gridTile = -1 THEN st
        ELSE IF gridIndex = -1
        THEN IF tileIndex # -1
             THEN [reset EXCEPT !.indices = Splice(@, tileIndex), !.tiles = Splice(@, tileIndex)]
             ELSE reset
        ELSE [(IF tileIndex # -1
               THEN [st EXCEPT !.tileData = @ \o <<gridTile, st.tileOffset>>,
                               !.tileOffset = @ + Len(st.tiles[tileIndex + 1])]
               ELSE st)
              EXCEPT !.whitelist = Splice(@, gridIndex)]

RECURSIVE CleanupFrom(_, _, _)
CleanupFrom(st, i, tileCount) ==
    IF i >= tileCount THEN st ELSE CleanupFrom(CleanupEntry(st, i), i + 1, tileCount)

\* one round of loadedTiles.forEach; the grid of a tile is null, undefined or an
\* elevation grid (kind "null", "undefined", "grid")
LoadTile(st, tileCount, tile) ==
    LET flatGridOffset == findFlattenGridDataOffset([grid |-> st.grid, tileCount |-> tileCount],
                                                    tile.row, tile.column)
        tileIndex == st.grid[flatGridOffset + FlattenGridTileIndex + 1]
    IN  IF tile.grid.kind = "null" THEN st
        ELSE IF tile.grid.kind = "grid" /\ tile.grid.MapLoaded
        THEN [st EXCEPT !.grid[flatGridOffset + FlattenGridRowCount + 1] = tile.grid.Rows,
                        !.grid[flatGridOffset + FlattenGridColumnCount + 1] = tile.grid.Columns,
                        !.indices = Append(@, tileIndex),
                        !.tiles = Append(@, tile.grid.ElevationMap),
                        !.tileData = @ \o <<tileIndex, st.tileOffset>>,
                        !.tileOffset = @ + Len(tile.grid.ElevationMap)]
        ELSE [st EXCEPT !.grid[flatGridOffset + FlattenGridRowCount + 1] = InvalidDataValue,
                        !.grid[flatGridOffset + FlattenGridColumnCount + 1] = InvalidDataValue]

RECURSIVE LoadFrom(_, _, _, _)
LoadFrom(st, tileCount, tiles, k) ==
    IF k > Len(tiles) THEN st
    ELSE LoadFrom(LoadTile(st, tileCount, tiles[k]), tileCount, tiles, k + 1)

\* updateTileData with both upload kernels created; renderer is the state of the
\* NavigationDisplayRenderer, running is FALSE once the handler has thrown
updateTileData(renderer, whitelist, tiles) ==
    LET start == [grid |-> renderer.flattenedGridData.grid,
                  indices |-> renderer.flattenedTileData.indices,
                  tiles |-> renderer.flattenedTileData.tiles,
                  whitelist |-> whitelist, tileData |-> <<>>, tileOffset |-> 0]
        cleaned == CleanupFrom(start, 0, renderer.flattenedGridData.tileCount)
        loaded == LoadFrom(cleaned, renderer.flattenedGridData.tileCount, tiles, 1)
        buffer == fastFlatten(loaded.tiles)
    IN  [flattenedGridData |-> [grid |-> loaded.grid, tileCount |-> renderer.flattenedGridData.tileCount],
         flattenedTileData |->
             [indices |-> loaded.indices, tiles |-> loaded.tiles, offsets |-> loaded.tileData,
              buffer |-> IF buffer = Null THEN renderer.flattenedTileData.buffer ELSE buffer[1],
              bufferLength |-> IF buffer = Null THEN 0 ELSE Len(buffer[1])],
         running |-> buffer # Null]

\* the tiles of the DEM: (0, 1) with tile index 0 and 1 sample, (1, 0) with tile index
\* 1 and 2 samples; (0, 0) is no tile of the DEM
TileOfCell(row, column, map) ==
    [row |-> row, column |-> column,
     grid |-> [kind |-> "grid", MapLoaded |-> TRUE, Rows |-> 1, Columns |-> Len(map), ElevationMap |-> map]]

\* the state initialize() leaves
InitTiles ==
    /\ InitScheduler
    /\ px = NoPixel
    /\ calc = [stage |-> "initialize", whitelist |-> <<>>, loadedTiles |-> <<>>,
               invalidTiles |-> FALSE, calls |-> 0,
               renderer |->
               [flattenedGridData |-> [grid |-> <<0, 1, 0, InvalidDataValue, InvalidDataValue,
                                                   1, 0, 1, InvalidDataValue, InvalidDataValue>>,
                                       tileCount |-> 2],
                flattenedTileData |-> [indices |-> <<>>, tiles |-> <<>>, offsets |-> <<>>, buffer |-> <<>>,
                                       bufferLength |-> 0],
                running |-> TRUE]]

\* the message TILES: the whitelist holds tiles of the DEM; loadedTiles holds, in any
\* order, tiles of the whitelist that the renderer does not hold, and possibly a tile
\* that is no tile of the DEM, decoded or not
UpdateTileData ==
    /\ calc.stage \in {"initialize", "updateTileData"}
    /\ calc.renderer.running
    /\ calc.calls < MaxTileUpdates
    /\ \E whitelist \in {<<>>, <<[row |-> 0, column |-> 1]>>, <<[row |-> 1, column |-> 0]>>,
                         <<[row |-> 0, column |-> 1], [row |-> 1, column |-> 0]>>},
          valid \in {<<>>, <<TileOfCell(0, 1, <<100>>)>>, <<TileOfCell(1, 0, <<110, 111>>)>>,
                     <<TileOfCell(0, 1, <<100>>), TileOfCell(1, 0, <<110, 111>>)>>,
                     <<TileOfCell(1, 0, <<110, 111>>), TileOfCell(0, 1, <<100>>)>>},
          invalid \in {<<>>, <<TileOfCell(0, 0, <<900>>)>>,
                       <<[TileOfCell(0, 0, <<>>) EXCEPT !.grid.MapLoaded = FALSE]>>} :
          /\ \A k \in DOMAIN valid :
                /\ \E w \in DOMAIN whitelist :
                      whitelist[w] = [row |-> valid[k].row, column |-> valid[k].column]
                /\ LET offset == findFlattenGridDataOffset(calc.renderer.flattenedGridData,
                                                           valid[k].row, valid[k].column)
                   IN  \A p \in DOMAIN calc.renderer.flattenedTileData.indices :
                          calc.renderer.flattenedTileData.indices[p]
                             # calc.renderer.flattenedGridData.grid[offset + FlattenGridTileIndex + 1]
          /\ calc' = [stage |-> "updateTileData",
                      renderer |-> updateTileData(calc.renderer, whitelist, valid \o invalid),
                      whitelist |-> whitelist, loadedTiles |-> valid \o invalid,
                      invalidTiles |-> calc.invalidTiles \/ invalid # <<>>,
                      calls |-> calc.calls + 1]
    /\ UNCHANGED <<schedVars, px>>

SpecTiles == InitTiles /\ [][UpdateTileData]_vars

\* ---------------------------------------------------------------- tile loader
\* the world of the loader thread, in degrees: a DEM of 3 x 6 tiles of 60 degrees over
\* the whole globe, rows counted from the north, of which the tile (2, 4) is absent;
\* cornerDistance is the distance of the south-west and north-east corners of the
\* visible disc from the aircraft along each axis
LoaderWorld ==
    [AngularSteps |-> [latitude |-> 60, longitude |-> 60],
     LatitudeRange |-> [min |-> -90, max |-> 90],
     LongitudeRange |-> [min |-> -180, max |-> 180],
     absent |-> {[row |-> 2, column |-> 4]},
     cornerDistance |-> 40]

\* WGS84.project for the bearings 225 and 45, on a cylinder: the longitude wraps at 180
WGS84project(latitude, longitude, distance, bearing) ==
    LET delta == IF bearing = 225 THEN -distance ELSE distance
    IN  [latitude |-> latitude + delta, longitude |-> ((longitude + delta + 540) % 360) - 180]

\* Worldmap.worldMapIndices: Null (undefined) outside of the DEM
WorldmapIndices(world, latitude, longitude) ==
    IF \/ latitude < world.LatitudeRange.min \/ latitude >= world.LatitudeRange.max
       \/ longitude < world.LongitudeRange.min \/ longitude >= world.LongitudeRange.max
    THEN Null
    ELSE Some([row |-> (world.LatitudeRange.max - 1 - latitude) \div world.AngularSteps.latitude,
               column |-> (longitude - world.LongitudeRange.min) \div world.AngularSteps.longitude])

\* Worldmap.validTile
validTile(world, index) == index \notin world.absent

RECURSIVE findTileIndices(_, _, _, _)
findTileIndices(world, latitude, longitude0, longitude1) ==
    IF ~(longitude0 < longitude1) THEN <<>>
    ELSE LET index == WorldmapIndices(world, latitude, longitude0)
         IN  (IF index # Null /\ validTile(world, index[1]) THEN index ELSE <<>>)
                \o findTileIndices(world, latitude, longitude0 + world.AngularSteps.longitude, longitude1)

\* the loops over the latitude of loadTiles, from latitude lat on
RECURSIVE TileIndicesFrom(_, _, _, _)
TileIndicesFrom(world, lat, southwest, northeast) ==
    IF ~(lat < northeast.latitude) THEN <<>>
    ELSE (IF southwest.longitude > northeast.longitude
          THEN findTileIndices(world, lat, southwest.longitude, 180)
                  \o findTileIndices(world, lat, -180, northeast.longitude)
          ELSE findTileIndices(world, lat, southwest.longitude, northeast.longitude))
            \o TileIndicesFrom(world, lat + world.AngularSteps.latitude, southwest, northeast)

\* loadTiles; loaded are the tiles whose elevationmap is defined; grid tells whether the
\* entry carries a grid (TRUE) or null
loadTiles(world, position, loaded) ==
    LET southwest == WGS84project(position.latitude, position.longitude, world.cornerDistance, 225)
        northeast == WGS84project(position.latitude, position.longitude, world.cornerDistance, 45)
        tileIndices == TileIndicesFrom(world, southwest.latitude, southwest, northeast)
    IN  [k \in DOMAIN tileIndices |->
            [row |-> tileIndices[k].row, column |-> tileIndices[k].column,
             grid |-> validTile(world, tileIndices[k]) /\ tileIndices[k] \notin loaded]]

\* positions over the lattice borders, beside them and at the antimeridian; nothing,
\* one tile or two tiles loaded before
InitLoader ==
    /\ InitScheduler
    /\ px = NoPixel
    /\ \E latitude \in {-40, -30, 0, 10, 25}, longitude \in {-175, -140, -20, 0, 30, 150, 170},
          loaded \in {{}, {[row |-> 1, column |-> 2]}, {[row |-> 1, column |-> 2], [row |-> 1, column |-> 5]}} :
          calc = [stage |-> "workerData", position |-> [latitude |-> latitude, longitude |-> longitude],
                  loaded |-> loaded, tiles |-> Null]

\* parentPort.postMessage(loadTiles(workerData.world, workerData.position))
LoadTiles ==
    /\ calc.stage = "workerData"
    /\ calc' = [calc EXCEPT !.stage = "loadTiles",
                            !.tiles = Some(loadTiles(LoaderWorld, calc.position, calc.loaded))]
    /\ UNCHANGED <<schedVars, px>>

SpecLoader == InitLoader /\ [][LoadTiles]_vars

\* ---------------------------------------------------------------- scheduler properties
\* the reset-metadata messages of a side among the messages of the last handler
ResetsSent(messages, side) ==
    {i \in DOMAIN messages : messages[i] = MetadataMessage(side, ResetMetadata, FALSE)}

FramesSent(messages, side) ==
    {i \in DOMAIN messages : messages[i].type = "frame" /\ messages[i].side = side}

\* C1: an aircraftStatusUpdate that changes active, range, arcMode or efisMode of a side
\* against the stored configuration stops the tickers and the timeout the side had,
\* sets resetRenderingData (a sweep started by the same handler consumes it), clears
\* lastFrame and lastTransitionData and sends exactly one reset metadata for the side;
\* the handler sends no frame, and a ticker it starts has neither ticked nor sent
C1_ReconfigurationResets ==
    [][\A side \in Sides :
          (lastEvent'.type = "aircraftStatusUpdate" /\ side \in lastEvent'.changed) =>
             /\ intervals'[side] \cap (intervals[side] \cup {navigationDisplayRendering[side].durationInterval}) = {}
             /\ ~timeouts'[side] /\ ~navigationDisplayRendering'[side].timeout
             /\ navigationDisplayRendering'[side].resetRenderingData \/ intervals'[side] # {}
             /\ navigationDisplayRendering'[side].lastFrame = Null
             /\ navigationDisplayRendering'[side].lastTransitionData = EmptyTransitionData
             /\ Cardinality(ResetsSent(sent', side)) = 1
             /\ FramesSent(sent', side) = {}
             /\ \A id \in intervals'[side] :
                   /\ closures'[side][id].angle = 0
                   /\ closures'[side][id].transitionFrames = 0
                   /\ \A e \in encoding'[side] : e.closure # id
    ]_vars

\* a reconfiguration arrived while frames of the running sweep were still being encoded
C1_Witness ==
    /\ lastEvent.type = "aircraftStatusUpdate"
    /\ \E side \in lastEvent.changed :
          /\ ResetsSent(sent, side) # {}
          /\ \E e \in encoding[side] : e.stale
          /\ intervals[side] # {}

\* C2: no metadata and no frame of a render made under a replaced configuration is sent
C2_StaleFramesDropped ==
    \A i \in DOMAIN sent : ~sent[i].stale

\* C3: while the stored configuration of a side is inactive no render is started for it
\* and no sweep runs for it
C3_InactiveStaysIdle ==
    \A side \in Sides :
       ~navigationDisplayRendering[side].config[1].active =>
          side \notin renderStarted /\ intervals[side] = {}

\* C4: every ticker the runtime runs for a side is the one durationInterval refers to,
\* so at most one is alive
C4_OneTicker ==
    \A side \in Sides :
       intervals[side] \subseteq ({navigationDisplayRendering[side].durationInterval} \ {0})

\* a sweep was replaced by a new one while it was running
C4_Witness ==
    /\ lastEvent.type = "aircraftStatusUpdate"
    /\ \E side \in lastEvent.changed :
          /\ intervals[side] # {}
          /\ \E e \in encoding[side] : e.stale /\ e.frame.kind = "transition"

\* C5: once shutdown() has run no ticker and no timeout is pending, no render starts
\* and only the shutdown handler itself may have sent
C5_ShutdownCancelsTimers ==
    ~initialized =>
       /\ \A side \in Sides : intervals[side] = {} /\ ~timeouts[side]
       /\ renderStarted = {}
       /\ lastEvent.type # "shutdown" => sent = <<>>

\* the state cleanupMemory() leaves for a side
SideIdle(side) ==
    /\ intervals[side] = {} /\ navigationDisplayRendering[side].durationInterval = 0
    /\ ~timeouts[side] /\ ~navigationDisplayRendering[side].timeout
    /\ navigationDisplayRendering[side].lastFrame = Null
    /\ navigationDisplayRendering[side].lastTransitionData = EmptyTransitionData
    /\ ~navigationDisplayRendering[side].config[1].active

CacheReleased ==
    cachedElevationData = ReleasedElevationData

\* a connection was lost after the last position update (only cleanupMemory() releases
\* the cache once a position is known)
AfterConnectionLost ==
    currentGroundTruthPosition # NullPosition /\ cachedElevationData.gpuData = Null

\* C6: connectionLost leaves both sides idle and inactive with the cache released, and
\* from then on a render only starts for a side whose stored configuration is active
C6_ConnectionLostIdles ==
    /\ lastEvent.type = "connectionLost" => CacheReleased /\ \A side \in Sides : SideIdle(side)
    /\ AfterConnectionLost =>
          \A side \in renderStarted : navigationDisplayRendering[side].config[1].active

\* C7: for a side whose configuration stays active, before shutdown: the tick that ends
\* the sweep leaves no ticker and one armed timeout; the firing of that timeout starts
\* a render and a sweep; a render that is not due to a reconfiguration starts only
\* while no ticker of the side runs
C7_CycleRepeats ==
    [][\A side \in Sides :
          LET active == navigationDisplayRendering[side].config[1].active
                           /\ navigationDisplayRendering'[side].config[1].active
                           /\ initialized
              event == lastEvent'
          IN  /\ (active /\ event.type = "tick" /\ event.side = side
                      /\ navigationDisplayRendering[side].durationInterval # 0
                      /\ navigationDisplayRendering'[side].durationInterval = 0)
                    => intervals'[side] = {} /\ timeouts'[side]
              /\ (active /\ event.type = "timeout" /\ event.side = side)
                    => side \in renderStarted' /\ intervals'[side] # {}
              /\ (active /\ side \in renderStarted' /\ side \notin event.changed)
                    => intervals[side] = {}
    ]_vars

\* C8: a render of an active side that starts no sweep leaves a timeout armed for the side
C8_SkippedTickRearms ==
    \A side \in renderStarted :
       (initialized /\ navigationDisplayRendering[side].config[1].active /\ intervals[side] = {})
          => timeouts[side]

\* C9: in the messages of every handler a frame directly follows a metadata of the same
\* side whose FrameByteCount is the frame's byte length, and a metadata is either
\* directly followed by such a frame or is the reset metadata with FrameByteCount 0
C9_MetadataFramePairs ==
    \A i \in DOMAIN sent :
       /\ sent[i].type = "frame" =>
             /\ i > 1
             /\ sent[i - 1].type = "metadata"
             /\ sent[i - 1].side = sent[i].side
             /\ sent[i - 1].data.FrameByteCount = sent[i].buffer.byteLength
       /\ sent[i].type = "metadata" =>
             \/ /\ i < Len(sent)
                /\ sent[i + 1].type = "frame"
                /\ sent[i + 1].side = sent[i].side
                /\ sent[i].data.FrameByteCount = sent[i + 1].buffer.byteLength
             \/ sent[i].data = ResetMetadata

\* the second frame of a sweep was sent, and a reset metadata by another handler
C9_Witness ==
    /\ lastEvent.type = "pngEncoded"
    /\ \E i \in DOMAIN sent : sent[i].type = "frame" /\ ~sent[i - 1].data.FirstFrame

\* ---------------------------------------------------------------- compositor properties
InsideMap(p) ==
    /\ p.x >= mapOffsetX(p.config) /\ p.x < mapOffsetX(p.config) + mapWidth(p.config)
    /\ p.y >= 128 /\ p.y < 128 + mapHeight(p.config)

ResolvedEncodings(side) == encoding[side] \ encoding'[side]

\* the previous handler was a reconfiguration of the side to an active configuration
JustReconfiguredActive(side) ==
    /\ lastEvent.type = "aircraftStatusUpdate"
    /\ side \in lastEvent.changed
    /\ navigationDisplayRendering[side].config[1].active
    /\ ResetsSent(sent, side) # {}

\* C11: a frame metadata sent directly after the reset metadata of a reconfiguration of
\* an active side has FirstFrame = true and the DisplayRange (range) and DisplayMode
\* (efisMode) of the new configuration; a frame metadata has FirstFrame = true exactly
\* if it is the first one its sweep sends
C11_FirstFrameOfNewSweep ==
    [][\A side \in Sides :
          (lastEvent'.type = "pngEncoded" /\ lastEvent'.side = side) =>
             \A e \in ResolvedEncodings(side) :
                LET data == sent'[1].data
                    config == navigationDisplayRendering[side].config[1]
                IN  /\ data.FirstFrame = (closures[side][e.closure].transitionFrames = 0)
                    /\ JustReconfiguredActive(side) =>
                          /\ data.FirstFrame
                          /\ data.DisplayRange = config.range
                          /\ data.DisplayMode = config.efisMode
    ]_vars

\* frames a sweep (the arcModeTransition call with ticker id) has handed to the PNG
\* encoder: those already sent and those still being encoded
FramesOfSweep(side, id) ==
    closures[side][id].transitionFrames + Cardinality({e \in encoding[side] : e.closure = id})

\* C12 (as stated): a sweep emits at most 22 frames
C12_AtMost22Frames ==
    \A side \in Sides : \A id \in DOMAIN closures[side] : FramesOfSweep(side, id) <= 22

\* C12 (amended): a sweep emits one frame per 40 ms tick, 22 transition frames at the
\* angles 4, 8, ..., 88 and the final frame on the tick that passes 90, at most 23
C12_AtMost23Frames ==
    \A side \in Sides : \A id \in DOMAIN closures[side] :
       /\ FramesOfSweep(side, id) <= 23
       /\ id \in intervals[side] =>
             /\ closures[side][id].angle <= 88
             /\ FramesOfSweep(side, id) * 4 = closures[side][id].angle

\* a sweep has ended and all its 23 frames are sent
C12_Witness ==
    \E side \in Sides :
       LET id == navigationDisplayRendering[side].lastTransitionData.frames
       IN  /\ id # 0
           /\ closures[side][id].transitionFrames = 23
           /\ \A e \in encoding[side] : e.closure # id

\* ---------------------------------------------------------------- world-map cache properties
\* C13: a position update that repeats the position of the previous position update,
\* with no connectionLost since, does not rebuild the world map: cpuData, gpuData,
\* cachedTiles, the decoded tiles, width, height, minWidthPerTile, minHeightPerTile, the
\* south-west and north-east bounds and currentGridPosition are what they were
C13_RepeatedPositionKeepsCache ==
    [][(lastEvent'.type = "positionUpdate" /\ lastEvent'.repeated) =>
          /\ ~lastEvent'.rebuilt
          /\ cachedElevationData' = cachedElevationData
          /\ worldMapMetadata' = worldMapMetadata
          /\ loadedTiles' = loadedTiles
    ]_vars

\* the position of an update that rebuilt the cache over the coast was reported again
C13_Witness ==
    /\ lastEvent.type = "positionUpdate" /\ lastEvent.repeated /\ ~lastEvent.rebuilt
    /\ currentGroundTruthPosition = Position(6, 9)
    /\ cachedElevationData.cachedTiles = 9

\* the world map assembled from the grid lookup table of a position once the tile
\* store has decoded every tile of it
AssembledWorldMap(position) ==
    LET grid == createGridLookupTable(position)
    IN  rebuildWorldMap(WorldState, position, grid, {cell \in CellsOf(grid) : TilePresent(cell)})

\* C14: after every processed position update cpuData, width, height and the south-west
\* and north-east bounds are those of the world map assembled from the grid lookup
\* table of the current position
C14_CacheFollowsPosition ==
    (lastEvent.type = "positionUpdate" /\ initialized) =>
       LET assembled == AssembledWorldMap(currentGroundTruthPosition)
       IN  /\ cachedElevationData.cpuData = assembled.cachedElevationData.cpuData
           /\ worldMapMetadata.width = assembled.worldMapMetadata.width
           /\ worldMapMetadata.height = assembled.worldMapMetadata.height
           /\ worldMapMetadata.southwest = assembled.worldMapMetadata.southwest
           /\ worldMapMetadata.northeast = assembled.worldMapMetadata.northeast

Abs(n) == IF n < 0 THEN -n ELSE n

\* C15: after every processed position update currentGridPosition lies inside the
\* cached grid and, projected back from the north-west corner of the cached grid with
\* latitudeStep / minHeightPerTile and longitudeStep / minWidthPerTile per pixel, is the
\* position within half a pixel
C15_EgoPixelProjectsBack ==
    (lastEvent.type = "positionUpdate" /\ initialized) =>
       LET m == worldMapMetadata
           ego == m.currentGridPosition
           position == currentGroundTruthPosition
       IN  /\ 0 <= ego.x /\ ego.x <= m.width
           /\ 0 <= ego.y /\ ego.y <= m.height
           /\ 2 * Abs(ego.x * GridData.longitudeStep
                         - (position.longitude - m.southwest.longitude) * m.minWidthPerTile)
                 <= GridData.longitudeStep
           /\ 2 * Abs(ego.y * GridData.latitudeStep
                         - (m.northeast.latitude - position.latitude) * m.minHeightPerTile)
                 <= GridData.latitudeStep

\* ---------------------------------------------------------------- pipeline properties
\* C16: in arc and in rose geometry the patches of pass 1 cover the whole local map,
\* and the histogram of pass 2 holds every sample that is not InvalidElevation,
\* UnknownElevation or WaterElevation and lies in [-500, 29040] once, in the bin of its
\* elevation, and no other sample: its 296 bins add up to the number of these samples
C16_HistogramCountsEverySample ==
    calc.stage = "histogram" =>
       LET eligible == {sample \in calc.samples : HistogramEligible(sample.elevation)}
           histogram == calc.histogram[1]
       IN  /\ HistogramBinCount = 296
           /\ patchesInX(calc.caller, calc.config) * 128 >= mapWidth(calc.config)
           /\ patchesInY(calc.caller, calc.config) * 128 >= mapHeight(calc.config)
           /\ \A bin \in 0..295 :
                 histogram[bin] = Cardinality({sample \in eligible : BinOf(sample.elevation) = bin})
           /\ SumOfBins(histogram, 0, 295) = Cardinality(eligible)

\* ---------------------------------------------------------------- threshold properties
\* C17: whenever normal mode is selected, the thresholds are ordered: lowDensityGreen <=
\* highDensityGreen <= lowDensityYellow <= highDensityYellow <= highDensityRed
C17_NormalModeThresholdsOrdered ==
    calc.stage = "normalMode" =>
       \A i \in 1..4 : calc.thresholds[1][i] <= calc.thresholds[1][i + 1]

\* the condition the sanity clamp is described by: the unclamped triple is not strictly
\* increasing, or lowerPercentile < upperPercentile < solidDensity does not hold
ClampExpected(statistics) ==
    LET unclamped == PeaksModeUnclamped(statistics.lowerPercentileElevation, statistics.upperPercentileElevation,
                                        statistics.halfElevation, statistics.minElevation, statistics.maxElevation)
    IN  \/ ~(unclamped[1] < unclamped[2] /\ unclamped[2] < unclamped[3])
        \/ ~(/\ statistics.lowerPercentileElevation < statistics.upperPercentileElevation
              /\ 100 * statistics.upperPercentileElevation < unclamped[3])

\* the returned thresholds are the clamped ones
ClampApplied(statistics, thresholds) ==
    /\ thresholds[2] = 100 * (statistics.maxElevation + 100)
    /\ thresholds[3] = 100 * (statistics.maxElevation + 100)

\* C18: whenever peaks mode is selected, the returned thresholds satisfy lowerDensity <=
\* higherDensity <= solidDensity, and higherDensity = solidDensity = maxElevation + 100
\* exactly when the unclamped triple is not strictly increasing or the percentile
\* ordering is violated (otherwise the unclamped triple is returned)
C18_PeaksModeClamp ==
    calc.stage = "peaksMode" =>
       LET statistics == calc.statistics[1]
           thresholds == calc.thresholds[1]
       IN  /\ thresholds[1] <= thresholds[2]
           /\ thresholds[2] <= thresholds[3]
           /\ ClampApplied(statistics, thresholds) <=> ClampExpected(statistics)
           /\ ~ClampExpected(statistics) =>
                  thresholds = PeaksModeUnclamped(statistics.lowerPercentileElevation,
                                                  statistics.upperPercentileElevation, statistics.halfElevation,
                                                  statistics.minElevation, statistics.maxElevation)

\* peaks mode with an increasing unclamped triple that is clamped because of the
\* percentiles alone
C18_Witness ==
    /\ calc.stage = "peaksMode"
    /\ ClampApplied(calc.statistics[1], calc.thresholds[1])
    /\ LET statistics == calc.statistics[1]
           unclamped == PeaksModeUnclamped(statistics.lowerPercentileElevation, statistics.upperPercentileElevation,
                                           statistics.halfElevation, statistics.minElevation, statistics.maxElevation)
       IN  unclamped[1] < unclamped[2] /\ unclamped[2] < unclamped[3]

\* peaks mode with the unclamped thresholds returned
C18_WitnessUnclamped ==
    /\ calc.stage = "peaksMode"
    /\ ~ClampApplied(calc.statistics[1], calc.thresholds[1])

\* ---------------------------------------------------------------- determinism
\* C19: the frames a side emits do not depend on the wall-clock time of the renders: the
\* start angle of every running sweep, which selects the pixels of its transition
\* frames, is the one arcModeTransition computes at any other clock phase (0 when the
\* side has a lastFrame)
C19_SweepIndependentOfClock ==
    \A side \in Sides : \A id \in intervals[side] : \A now \in TimePhases :
       closures[side][id].startAngle \in {0, TimeAngle(side, now)}

\* ---------------------------------------------------------------- cut-off altitude properties
\* the destination elevation extractElevation gives for the inputs of the call
DestinationElevation == extractElevation(calc.cpuData, calc.index)

\* the aircraft status is missing, destinationDataValid is false or the destination
\* elevation is InvalidElevation
DestinationUnusable ==
    \/ calc.aircraftStatus = Null
    \/ ~calc.aircraftStatus[1].destinationDataValid
    \/ DestinationElevation = Sample(InvalidElevation)

\* C20: calculateAbsoluteCutOffAltitude returns -500 whenever the aircraft status is
\* missing, destinationDataValid is false or the destination elevation is invalid (as it
\* is with an empty world-map cache), whatever the distance, the altitude and the
\* destination; in every other case the result lies in 200..400
C20_CutOffAltitude ==
    calc.stage = "cutOffAltitude" =>
       /\ (calc.cpuData = Null \/ calc.cpuData = Some(<<>>)) => DestinationElevation = Sample(InvalidElevation)
       /\ DestinationUnusable => calc.cutOffAltitude[1] = -500
       /\ ~DestinationUnusable => calc.cutOffAltitude[1] \in 200..400

\* a valid destination close by with an empty cache
C20_Witness ==
    /\ calc.stage = "cutOffAltitude"
    /\ calc.aircraftStatus # Null
    /\ calc.aircraftStatus[1].destinationDataValid
    /\ calc.cpuData = Some(<<>>)
    /\ calc.distance = 50
    /\ calc.cutOffAltitude[1] = -500

\* a valid destination on the linear part of the model
C20_WitnessLinear ==
    /\ calc.stage = "cutOffAltitude"
    /\ ~DestinationUnusable
    /\ calc.distance = 250
    /\ calc.cutOffAltitude[1] = 300

\* C21: with valid destination data and a destination elevation that is not
\* InvalidElevation, the cut-off altitude at a distance of exactly 4.0 nm is 400
C21_MaximumAtFourMiles ==
    (calc.stage = "cutOffAltitude" /\ ~DestinationUnusable /\ calc.distance = RenderingMaxAirportDistance) =>
       calc.cutOffAltitude[1] = 400

\* the aircraft is above the destination elevation by at least the 3 degree glide
GlideAtLeastThreeDegrees ==
    /\ DestinationElevation.defined
    /\ calc.distance > 0
    /\ calc.aircraftStatus[1].altitude - DestinationElevation.value > 0
    /\ (calc.aircraftStatus[1].altitude - DestinationElevation.value) * 100000 >= calc.distance * GlideLimit

\* C22 (as stated): with valid destination data and a destination elevation that is not
\* InvalidElevation, the cut-off altitude is 200 whenever the distance is at most 1.0 nm
C22_MinimumWithinOneMile ==
    (calc.stage = "cutOffAltitude" /\ ~DestinationUnusable /\ calc.distance <= 100) =>
       calc.cutOffAltitude[1] = 200

\* C22 (amended): within 1.0 nm the cut-off altitude is 200 when the glide to the
\* destination is below 3 degrees (also when the aircraft is not above the destination
\* or the distance is 0), and 400 when the glide is 3 degrees or more
C22_MinimumWithinOneMileBelowGlide ==
    (calc.stage = "cutOffAltitude" /\ ~DestinationUnusable /\ calc.distance <= 100) =>
       calc.cutOffAltitude[1] = (IF GlideAtLeastThreeDegrees THEN 400 ELSE 200)

\* an aircraft above the destination, 1.0 nm away on a glide below 3 degrees
C22_Witness ==
    /\ calc.stage = "cutOffAltitude"
    /\ ~DestinationUnusable
    /\ calc.distance = 100
    /\ DestinationElevation.defined
    /\ calc.aircraftStatus[1].altitude > DestinationElevation.value
    /\ calc.cutOffAltitude[1] = 200

\* ---------------------------------------------------------------- frame snapshot
\* C23: while lastTransitionData of a side keeps the frames list of one completed sweep,
\* the list (the answer to REQ_FRAME_DATA) is not modified: it holds every frame of the
\* sweep from the moment the timestamp is set
C23_SnapshotNotModified ==
    [][\A side \in Sides :
          LET id == navigationDisplayRendering[side].lastTransitionData.frames
          IN  (/\ navigationDisplayRendering[side].lastTransitionData.timestamp # 0
               /\ navigationDisplayRendering'[side].lastTransitionData.frames = id)
              => closures'[side][id].transitionFrames = closures[side][id].transitionFrames]_vars

\* ---------------------------------------------------------------- metadata properties
\* C24: the metadata row of the colorizer decodes in analyzeMetadata to the reported
\* values: in normal mode MinimumElevation = max(cutOff, lowDensityGreen),
\* MinimumElevationMode = Warning iff lowDensityYellow <= highDensityGreen (else
\* PeaksMode), MaximumElevation = maxElevation, MaximumElevationMode = Caution iff
\* maxElevation >= highDensityRed (else Warning); in peaks mode both modes are PeaksMode
\* and the elevations are (-1, 0) when maxElevation < 0, else
\* (max(lowerDensity, minElevation), maxElevation)
C24_MetadataDecodes ==
    calc.stage = "thresholdData" =>
       LET statistics == calc.statistics[1]
           thresholds == calc.thresholds[1]
           data == calc.thresholdData[1]
       IN  /\ calc.metadata[1][1] = (IF NormalModeSelected(statistics) THEN 0 ELSE 1)
           /\ NormalModeSelected(statistics) =>
                 /\ data.MinimumElevation = MaxOf(calc.inputs.cutOffAltitude, thresholds[1])
                 /\ data.MinimumElevationMode = (IF thresholds[3] <= thresholds[2] THEN Warning ELSE PeaksMode)
                 /\ data.MaximumElevation = statistics.maxElevation
                 /\ data.MaximumElevationMode = (IF statistics.maxElevation >= thresholds[5] THEN Caution ELSE Warning)
           /\ ~NormalModeSelected(statistics) =>
                 /\ data.MinimumElevationMode = PeaksMode
                 /\ data.MaximumElevationMode = PeaksMode
                 /\ statistics.maxElevation < 0 => data.MinimumElevation = -1 /\ data.MaximumElevation = 0
                 /\ statistics.maxElevation >= 0 =>
                       /\ 100 * data.MinimumElevation = MaxOf(thresholds[1], 100 * statistics.minElevation)
                       /\ data.MaximumElevation = statistics.maxElevation

\* a normal-mode row with distinct yellow thresholds that decodes to Warning
C24_Witness ==
    /\ calc.stage = "thresholdData"
    /\ calc.metadata[1][1] = 0
    /\ calc.thresholds[1][3] < calc.thresholds[1][4]
    /\ calc.thresholdData[1].MinimumElevationMode = Warning
    /\ calc.thresholdData[1].MinimumElevation = calc.inputs.cutOffAltitude

\* a peaks-mode row of terrain below sea level
C24_WitnessPeaks ==
    /\ calc.stage = "thresholdData"
    /\ calc.metadata[1][1] = 1
    /\ calc.statistics[1].maxElevation < 0

\* ---------------------------------------------------------------- mode and statistics properties
\* altitude + verticalSpeed * 0.5 when verticalSpeed <= -1000, altitude otherwise
ExpectedReferenceAltitude ==
    IF calc.inputs.verticalSpeed <= -1000
    THEN calc.inputs.altitude + calc.inputs.verticalSpeed \div 2
    ELSE calc.inputs.altitude

\* C27: referenceAltitude is altitude + verticalSpeed * 0.5 when verticalSpeed <= -1000
\* and altitude otherwise; normal mode is rendered iff maxElevation >= referenceAltitude
\* - gearDownAltitudeOffset, else peaks mode, and the mode flag of the metadata row is 0
\* exactly in normal mode; altitude 10000, vertical speed -1500, gear down and a maximum
\* terrain of 9500 give referenceAltitude 9250, normal mode and highDensityRed 11250
C27_ModeSelection ==
    calc.stage \in {"normalMode", "peaksMode"} =>
       LET statistics == calc.statistics[1]
           normal == statistics.maxElevation >= ExpectedReferenceAltitude - calc.inputs.gearDownAltitudeOffset
       IN  /\ statistics.referenceAltitude = ExpectedReferenceAltitude
           /\ calc.inputs.gearDownAltitudeOffset \in {250, 500}
           /\ calc.stage = (IF normal THEN "normalMode" ELSE "peaksMode")
           /\ calc.metadata[1][1] = (IF normal THEN 0 ELSE 1)
           /\ (/\ calc.inputs.altitude = 10000 /\ calc.inputs.verticalSpeed = -1500
               /\ calc.inputs.gearDownAltitudeOffset = 250 /\ statistics.maxElevation = 9500)
              => /\ statistics.referenceAltitude = 9250
                 /\ calc.stage = "normalMode"
                 /\ calc.thresholds[1][5] = 11250

\* the example of the claim
C27_Witness ==
    /\ calc.stage = "normalMode"
    /\ calc.inputs.altitude = 10000 /\ calc.inputs.verticalSpeed = -1500
    /\ calc.inputs.gearDownAltitudeOffset = 250 /\ calc.statistics[1].maxElevation = 9500
    /\ calc.thresholds[1][5] = 11250

\* normal mode on the border: maxElevation = referenceAltitude - gearDownAltitudeOffset
C27_WitnessBorder ==
    /\ calc.stage = "normalMode"
    /\ calc.statistics[1].maxElevation = calc.statistics[1].referenceAltitude - calc.inputs.gearDownAltitudeOffset

\* C28: in normal mode highDensityGreen = max(minElevation + 200, referenceAltitude -
\* 1000), lowDensityYellow = max(minElevation + 200, referenceAltitude -
\* gearDownAltitudeOffset) and lowDensityGreen before the flat-earth clamp =
\* max(minElevation + 200, referenceAltitude - 2000)
C28_NormalModeThresholdsAreMaxima ==
    calc.stage = "normalMode" =>
       LET statistics == calc.statistics[1]
           floor == statistics.minElevation + 200
           unclampedGreen == a32nxCalculateNormalModeGreenThresholds(
                                 statistics.referenceAltitude, statistics.minElevation, -1,
                                 statistics.lowerPercentileElevation, statistics.halfElevation)
       IN  /\ calc.thresholds[1][2] = MaxOf(floor, statistics.referenceAltitude - 1000)
           /\ calc.thresholds[1][3] = MaxOf(floor, statistics.referenceAltitude - statistics.gearDownAltitudeOffset)
           /\ unclampedGreen[1] = MaxOf(floor, statistics.referenceAltitude - 2000)

\* C29: when no bin from the cut-off bin on holds a sample, minElevation is -1,
\* maxElevation is 0 and both percentile elevations are 295 * 100 - 500 = 29000
C29_EmptyHistogramStatistics ==
    (/\ calc.stage = "statistics"
     /\ \A bin \in 0..(HistogramBinCount - 1) :
           bin >= (calc.inputs.cutOffAltitude - HistogramMinimumElevation) \div HistogramBinRange
              => calc.inputs.histogram[bin] = 0)
    => /\ calc.statistics[1].minElevation = -1
       /\ calc.statistics[1].maxElevation = 0
       /\ calc.statistics[1].upperPercentileElevation = 29000
       /\ calc.statistics[1].lowerPercentileElevation = 29000

\* ---------------------------------------------------------------- pixel properties
\* the elevation of the pixel is a measured one
TrueElevation == calc.elevation \notin {InvalidElevation, UnknownElevation, WaterElevation}

\* C25: in normal and in peaks mode a pixel with a true elevation below the cut-off
\* altitude is transparent
C25_BelowCutOffTransparent ==
    (calc.stage = "pixel" /\ TrueElevation /\ calc.elevation < calc.inputs.cutOffAltitude) =>
       calc.rendered[1].pixel = Transparent

\* C30: in normal mode a true elevation at or above the cut-off altitude is high-density
\* red from highDensityRed on, else high-density yellow from highDensityYellow on, else
\* high-density green in [highDensityGreen, lowDensityYellow), else low-density yellow
\* in [lowDensityYellow, highDensityYellow), else low-density green in [lowDensityGreen,
\* highDensityGreen), else transparent; water is the cyan stipple, unknown high-density
\* magenta and invalid transparent, whatever the thresholds and the cut-off altitude
C30_NormalModeClassification ==
    (calc.stage = "pixel" /\ calc.rendered[1].mode = 0) =>
       LET e == calc.elevation
           lowDensityGreen == calc.rendered[1].thresholds[1]
           highDensityGreen == calc.rendered[1].thresholds[2]
           lowDensityYellow == calc.rendered[1].thresholds[3]
           highDensityYellow == calc.rendered[1].thresholds[4]
           highDensityRed == calc.rendered[1].thresholds[5]
           pixel == calc.rendered[1].pixel
       IN  /\ e = WaterElevation => pixel = [draw |-> "a32nxDrawWaterDensityPixel", color |-> <<0, 255, 255, 255>>]
           /\ e = UnknownElevation => pixel = [draw |-> "a32nxDrawHighDensityPixel", color |-> <<255, 148, 255, 255>>]
           /\ e = InvalidElevation => pixel = [draw |-> "none", color |-> <<0, 0, 0, 0>>]
           /\ (TrueElevation /\ e >= calc.inputs.cutOffAltitude) =>
                 pixel = (IF e >= highDensityRed
                             THEN [draw |-> "a32nxDrawHighDensityPixel", color |-> <<255, 0, 0, 255>>]
                          ELSE IF e >= highDensityYellow
                             THEN [draw |-> "a32nxDrawHighDensityPixel", color |-> <<255, 255, 50, 255>>]
                          ELSE IF highDensityGreen <= e /\ e < lowDensityYellow
                             THEN [draw |-> "a32nxDrawHighDensityPixel", color |-> <<0, 255, 0, 255>>]
                          ELSE IF lowDensityYellow <= e /\ e < highDensityYellow
                             THEN [draw |-> "a32nxDrawLowDensityPixel", color |-> <<255, 255, 50, 255>>]
                          ELSE IF lowDensityGreen <= e /\ e < highDensityGreen
                             THEN [draw |-> "a32nxDrawLowDensityPixel", color |-> <<0, 255, 0, 255>>]
                          ELSE [draw |-> "none", color |-> <<0, 0, 0, 0>>])

\* a low-density yellow pixel of normal mode above highDensityGreen
C30_Witness ==
    /\ calc.stage = "pixel"
    /\ calc.rendered[1].mode = 0
    /\ calc.elevation >= calc.rendered[1].thresholds[2]
    /\ calc.rendered[1].pixel = [draw |-> "a32nxDrawLowDensityPixel", color |-> <<255, 255, 50, 255>>]

\* ---------------------------------------------------------------- final frame
\* the pixel lies in the map region of the frame
InMapRegion(p) ==
    /\ p.x >= mapOffsetX(p.config) /\ p.x < mapOffsetX(p.config) + mapWidth(p.config)
    /\ p.y >= RenderingMapStartOffsetY /\ p.y < RenderingMapStartOffsetY + mapHeight(p.config)

\* C26: the frame emitted when a sweep reaches 90 degrees, which is latched as the
\* lastFrame of the side, equals the newly rendered frame in the whole map region, also
\* in the first sweep after startup or a reset (lastFrame null, startAngle derived from
\* the elapsed time)
C26_FinalFrameIsNewFrame ==
    (px.phase = "emitted" /\ px.kind = "final" /\ InMapRegion(px)) => px.pixel = px.newFrame

\* ---------------------------------------------------------------- elevation lookup properties
\* the row and the column of the destination in the cached grid: the pixel deltas added
\* to the grid position of the aircraft, floored
DestinationRow == (calc.currentGridPosition.y + calc.latPixelDelta) \div 4

DestinationColumn == (calc.currentGridPosition.x + calc.longPixelDelta) \div 4

CacheHeight == Len(calc.cpuData[1]) \div calc.width

CacheIsEmpty == calc.cpuData = Null \/ Len(calc.cpuData[1]) = 0

DestinationInsideGrid ==
    /\ ~CacheIsEmpty
    /\ DestinationRow >= 0 /\ DestinationRow < CacheHeight
    /\ DestinationColumn >= 0 /\ DestinationColumn < calc.width

\* C31: for a destination inside of the cached grid extractElevation returns the sample
\* of the floored row and the floored column, cpuData[row * width + column], also when
\* the grid position of the aircraft is fractional
C31_SampleOfFlooredRowAndColumn ==
    (calc.stage = "extractElevation" /\ DestinationInsideGrid)
        => calc.elevation
             = Some(Sample(calc.cpuData[1][DestinationRow * calc.width + DestinationColumn + 1]))

\* C32: extractElevation returns InvalidElevation for no or an empty cache and
\* UnknownElevation for every destination outside of the grid (row or column below 0,
\* row >= height, column >= width); never the sample of another pixel and never an
\* undefined value
C32_OutsideIsUnknown ==
    calc.stage = "extractElevation"
        => /\ CacheIsEmpty => calc.elevation = Some(Sample(InvalidElevation))
           /\ (~CacheIsEmpty /\ ~DestinationInsideGrid)
                 => calc.elevation = Some(Sample(UnknownElevation))
           /\ calc.elevation[1].defined

\* ---------------------------------------------------------------- projector properties
ProjectedRow == (calc.currentWorldGrid.y + calc.latPixelDelta) \div 4

ProjectedColumn == (calc.currentWorldGrid.x + calc.longPixelDelta) \div 4

ProjectedInsideWorldMap ==
    /\ ProjectedRow >= 0 /\ ProjectedRow < calc.worldMapHeight
    /\ ProjectedColumn >= 0 /\ ProjectedColumn < calc.worldMapWidth

OutsideOfArc ==
    calc.arcMode /\ DistancePixelsSquared4(calc.thread, calc.ndWidth, calc.ndHeight)
                       > 4 * calc.ndHeight * calc.ndHeight

\* C33: the projector reads the world map only at 0 <= x < worldMapWidth and
\* 0 <= y < worldMapHeight; a pixel projected out of that range (x = worldMapWidth and
\* y = worldMapHeight included) gives UnknownElevation without a read, and in arc mode
\* a pixel farther than ndHeight from the aircraft gives InvalidElevation without a read
C33_ProjectorReadsInsideOnly ==
    calc.stage = "localElevationMap"
        => /\ calc.result[1].sampled
                 => /\ calc.result[1].x >= 0 /\ calc.result[1].x < calc.worldMapWidth
                    /\ calc.result[1].y >= 0 /\ calc.result[1].y < calc.worldMapHeight
           /\ OutsideOfArc => calc.result[1] = KernelConstant(InvalidElevation)
           /\ (~OutsideOfArc /\ ~ProjectedInsideWorldMap)
                 => calc.result[1] = KernelConstant(UnknownElevation)

\* ---------------------------------------------------------------- timer properties
\* C34: for each side the sweep ticker and the waiting timeout are never pending
\* together, neither as handles (durationInterval, timeout) nor in the runtime
C34_TickerAndTimeoutExclusive ==
    \A side \in Sides :
       /\ ~(navigationDisplayRendering[side].durationInterval # 0
              /\ navigationDisplayRendering[side].timeout)
       /\ ~(intervals[side] # {} /\ timeouts[side])

\* the timeout armed at the end of a sweep has fired and started the next sweep
C34_Witness ==
    /\ lastEvent.type = "timeout"
    /\ intervals[lastEvent.side] # {}
    /\ navigationDisplayRendering[lastEvent.side].lastTransitionData.timestamp # 0

\* the tick that ended a sweep has armed the timeout
C34_WitnessArmed ==
    /\ lastEvent.type = "tick"
    /\ timeouts[lastEvent.side]
    /\ intervals[lastEvent.side] = {}

\* C35: while a sweep ticker of a side is alive resetRenderingData of the side is
\* false, and the ticker has not reached 90 degrees: the tick that reaches 90 degrees
\* clears it, so no sweep ticks on beyond its final frame
C35_SweepStopsAtFinalFrame ==
    \A side \in Sides :
       intervals[side] # {} =>
          /\ ~navigationDisplayRendering[side].resetRenderingData
          /\ \A id \in intervals[side] : closures[side][id].angle < 90

\* the tick that reached 90 degrees has cleared the ticker and stored the sweep
C35_Witness ==
    /\ lastEvent.type = "tick"
    /\ intervals[lastEvent.side] = {}
    /\ navigationDisplayRendering[lastEvent.side].durationInterval = 0
    /\ navigationDisplayRendering[lastEvent.side].lastTransitionData.timestamp # 0

\* C36: an aircraftStatusUpdate whose configuration of a side equals the stored one in
\* active, range, arcMode and efisMode sends no reset metadata for the side and leaves
\* its ticker, its timeout, resetRenderingData, lastFrame and lastTransitionData (and
\* the state of a running sweep) as they were
C36_SameConfigurationKeepsSweep ==
    [][\A side \in Sides :
          (lastEvent'.type = "aircraftStatusUpdate" /\ side \notin lastEvent'.changed) =>
             /\ ResetsSent(sent', side) = {}
             /\ intervals'[side] = intervals[side]
             /\ timeouts'[side] = timeouts[side]
             /\ navigationDisplayRendering'[side].durationInterval
                   = navigationDisplayRendering[side].durationInterval
             /\ navigationDisplayRendering'[side].timeout = navigationDisplayRendering[side].timeout
             /\ navigationDisplayRendering'[side].resetRenderingData
                   = navigationDisplayRendering[side].resetRenderingData
             /\ navigationDisplayRendering'[side].lastFrame = navigationDisplayRendering[side].lastFrame
             /\ navigationDisplayRendering'[side].lastTransitionData
                   = navigationDisplayRendering[side].lastTransitionData
             /\ closures'[side] = closures[side]
    ]_vars

\* a status update with the stored configuration arrived in the middle of a sweep
C36_Witness ==
    /\ lastEvent.type = "aircraftStatusUpdate"
    /\ \E side \in Sides \ lastEvent.changed :
          \E id \in intervals[side] : closures[side][id].angle > 0

\* a status update with the stored configuration arrived while the side was waiting
C36_WitnessWaiting ==
    /\ lastEvent.type = "aircraftStatusUpdate"
    /\ \E side \in Sides \ lastEvent.changed : timeouts[side]

\* ---------------------------------------------------------------- elevation range properties
\* C37: in the metadata of every frame MinimumElevation <= MaximumElevation, for every
\* histogram (the empty one included), altitude, vertical speed, gear state and
\* cut-off altitude, in normal and in peaks mode
C37_MinimumNotAboveMaximum ==
    calc.stage = "thresholdData"
        => calc.thresholdData[1].MinimumElevation <= calc.thresholdData[1].MaximumElevation

\* ---------------------------------------------------------------- tile cache properties
\* the position in the buffer at which the samples of the cached tile p start
RECURSIVE StartOfTile(_, _)
StartOfTile(tiles, p) ==
    IF p <= 1 THEN 0 ELSE StartOfTile(tiles, p - 1) + Len(tiles[p - 1])

\* the offsets recorded for a tile index
OffsetsOf(offsets, tileIndex) ==
    {offsets[2 * k] : k \in {k \in 1..(Len(offsets) \div 2) : offsets[2 * k - 1] = tileIndex}}

\* the tile index the flattened grid has for a tile of the DEM
GridTileIndex(cell) ==
    IF cell = [row |-> 0, column |-> 1] THEN 0 ELSE 1

\* C38: after every sequence of updateTileData calls with tiles of the DEM, the offset
\* recorded for each cached tile is the position at which its samples start in the
\* buffer, the buffer is the concatenation of the cached tiles, and the cache holds
\* each tile once and only tiles of the latest whitelist, the tiles loaded by the call
\* among them
C38_TileCacheCoherent ==
    (calc.stage = "updateTileData" /\ ~calc.invalidTiles /\ calc.renderer.running)
        => LET cache == calc.renderer.flattenedTileData
           IN  /\ cache.buffer = FlattenFrom(cache.tiles, 1)
               /\ \A p \in DOMAIN cache.indices :
                     /\ OffsetsOf(cache.offsets, cache.indices[p]) = {StartOfTile(cache.tiles, p)}
                     /\ \E w \in DOMAIN calc.whitelist : GridTileIndex(calc.whitelist[w]) = cache.indices[p]
                     /\ \A q \in DOMAIN cache.indices : cache.indices[q] = cache.indices[p] => q = p
               /\ \A k \in DOMAIN calc.loadedTiles :
                     \E p \in DOMAIN cache.indices :
                        /\ cache.indices[p] = GridTileIndex([row |-> calc.loadedTiles[k].row,
                                                            column |-> calc.loadedTiles[k].column])
                        /\ cache.tiles[p] = calc.loadedTiles[k].grid.ElevationMap

\* the tiles of a call that are tiles of the flattened world grid
TilesOfGrid(renderer, tiles) ==
    SelectSeq(tiles, LAMBDA tile : findFlattenGridDataOffset(renderer.flattenedGridData,
                                                             tile.row, tile.column) >= 0)

\* C39: a loaded tile that is no entry of the flattened world grid is rejected: grid,
\* indices, tiles and offsets are after the call what they are after the same call
\* without that tile
C39_InvalidTileRejected ==
    [][(calc'.stage = "updateTileData" /\ calc.stage \in {"initialize", "updateTileData"})
          => LET without == updateTileData(calc.renderer, calc'.whitelist,
                                           TilesOfGrid(calc.renderer, calc'.loadedTiles))
             IN  /\ calc'.renderer.flattenedGridData = without.flattenedGridData
                 /\ calc'.renderer.flattenedTileData.indices = without.flattenedTileData.indices
                 /\ calc'.renderer.flattenedTileData.tiles = without.flattenedTileData.tiles
                 /\ calc'.renderer.flattenedTileData.offsets = without.flattenedTileData.offsets
    ]_vars

\* ---------------------------------------------------------------- tile loader properties
SouthwestCorner ==
    WGS84project(calc.position.latitude, calc.position.longitude, LoaderWorld.cornerDistance, 225)

NortheastCorner ==
    WGS84project(calc.position.latitude, calc.position.longitude, LoaderWorld.cornerDistance, 45)

\* the longitudes from west to east meet the tile column
ColumnMeets(column, west, east) ==
    /\ LoaderWorld.LongitudeRange.min + column * LoaderWorld.AngularSteps.longitude < east
    /\ LoaderWorld.LongitudeRange.min + (column + 1) * LoaderWorld.AngularSteps.longitude > west

\* the valid tiles of the lattice that the rectangle between the corners meets
TilesOfRectangle ==
    {cell \in [row : 0..2, column : 0..5] :
        /\ validTile(LoaderWorld, cell)
        /\ LoaderWorld.LatitudeRange.max - (cell.row + 1) * LoaderWorld.AngularSteps.latitude
              < NortheastCorner.latitude
        /\ LoaderWorld.LatitudeRange.max - cell.row * LoaderWorld.AngularSteps.latitude
              > SouthwestCorner.latitude
        /\ IF SouthwestCorner.longitude > NortheastCorner.longitude
           THEN \/ ColumnMeets(cell.column, SouthwestCorner.longitude, 180)
                \/ ColumnMeets(cell.column, -180, NortheastCorner.longitude)
           ELSE ColumnMeets(cell.column, SouthwestCorner.longitude, NortheastCorner.longitude)}

\* C40: loadTiles returns one entry for every valid tile the rectangle between the
\* south-west and the north-east corner meets, the tiles of the north-east corner
\* included and on both sides of the antimeridian, and an entry carries a grid exactly
\* if the tile was not loaded before
C40_LoadTilesCoversRectangle ==
    calc.stage = "loadTiles"
        => /\ \A cell \in TilesOfRectangle :
                 Cardinality({k \in DOMAIN calc.tiles[1] :
                                 calc.tiles[1][k].row = cell.row /\ calc.tiles[1][k].column = cell.column}) = 1
           /\ \A k \in DOMAIN calc.tiles[1] :
                 calc.tiles[1][k].grid
                    <=> [row |-> calc.tiles[1][k].row, column |-> calc.tiles[1][k].column] \notin calc.loaded

====
